---- MODULE Spec2Model ----
(***************************************************************************)
(* Credit-card statement parser: the orchestrator                          *)
(* (UnifiedCreditCardParser.parse), the Gemini adapter (GeminiAIParser)    *)
(* with its full-extraction and enhancement modes, the statement record    *)
(* (StatementData) and the amount normaliser (BaseParser.clean_amount);    *)
(* then the helper functions on their own, each under a specification of   *)
(* its own: the transaction grammars (extract_transactions), the two       *)
(* de-duplication loops, extract_with_pattern, the issuer detectors        *)
(* (BankDetector.detect, detect_issuer) and clean_amount.                  *)
(*                                                                         *)
(* Field values and amounts, which the code inspects character by          *)
(* character, are sequences of one-character strings; statement lines,     *)
(* keywords and detector texts are strings.  In the orchestrator a         *)
(* statement text is a record of its length, its leading/trailing          *)
(* whitespace and its words; what the field patterns capture and the       *)
(* transactions the grammar yields are chosen when the engine runs.        *)
(* confidence_score is kept in hundredths (0.8 is 80).  A helper call is   *)
(* fn (the function), args (its arguments) and ret (its return).           *)
(***************************************************************************)
EXTENDS Integers, Sequences, FiniteSets, TLC

VARIABLES
    api_key,        \* config.GEMINI_API_KEY, read once at import
    pc,             \* position of the current parse call
    force_ai,       \* argument of parse
    full_text,      \* text returned by the text extractor
    detected_bank,  \* result of BankDetector.detect
    statement,      \* the StatementData of the current call
    text_sent,      \* length of the text handed to the backend
    result,         \* the dict parse returns
    calls,          \* stages invoked in the current call, in order
    draft,          \* the record as enhance_regex_results received it
    ai_resp,        \* the backend's answer in the current call
    raised,         \* exceptions raised in the current call: <<stage, text>>
    fn,             \* the helper function applied on its own, "" when none is
    args,           \* its arguments
    ret             \* what it returned

\* the state of a parse call
parseVars == <<api_key, pc, force_ai, full_text, detected_bank, statement,
               text_sent, result, calls, draft, ai_resp, raised>>

\* the state of a helper function applied on its own
helperVars == <<fn, args, ret>>

vars == <<parseVars, helperVars>>

(***************************************************************************)
(* Bounds                                                                  *)
(***************************************************************************)
\* most transactions a grammar finds in one text
MaxTxns == 1

(***************************************************************************)
(* Values                                                                  *)
(***************************************************************************)
NOT_FOUND == <<"N", "O", "T", "_", "F", "O", "U", "N", "D">>
EmptyStr == <<>>
\* a JSON number in the backend's answer where the schema asks for a string
JsonNumber == <<"<number>">>
None == "None"

IsStr(v) == v # JsonNumber

Digits == {"0", "1", "2", "3", "4", "5", "6", "7", "8", "9"}
Whitespace == {" ", "\t", "\n", "\r"}

\* F(v) for the value of v
Once(v, F(_)) == CHOOSE r \in {F(x) : x \in {v}} : TRUE

Min(a, b) == IF a < b THEN a ELSE b

RECURSIVE SelectChars(_, _)
SelectChars(s, keep) ==
    IF s = <<>> THEN <<>>
    ELSE IF Head(s) \in keep THEN <<Head(s)>> \o SelectChars(Tail(s), keep)
    ELSE SelectChars(Tail(s), keep)

RECURSIVE LStrip(_)
LStrip(s) == IF s # <<>> /\ Head(s) \in Whitespace THEN LStrip(Tail(s)) ELSE s

RECURSIVE RStrip(_)
RStrip(s) ==
    IF s # <<>> /\ s[Len(s)] \in Whitespace THEN RStrip(SubSeq(s, 1, Len(s) - 1)) ELSE s

Strip(s) == RStrip(LStrip(s))

HasPrefix(s, p) == Len(s) >= Len(p) /\ SubSeq(s, 1, Len(p)) = p

CountOf(s, c) == Cardinality({i \in 1..Len(s) : s[i] = c})

\* a str as the sequence of its characters, and back
Chars(s) == [i \in 1..Len(s) |-> SubSeq(s, i, i)]

RECURSIVE Str(_)
Str(cs) ==
    Once(cs, LAMBDA v :
        IF v = <<>> THEN ""
        ELSE IF Len(v) = 1 THEN v[1]
        ELSE Once(Len(v) \div 2, LAMBDA h :
                 Str(SubSeq(v, 1, h)) \o Str(SubSeq(v, h + 1, Len(v)))))

LowerLetters == "abcdefghijklmnopqrstuvwxyz"
UpperLetters == "ABCDEFGHIJKLMNOPQRSTUVWXYZ"

UpperChar(c) ==
    IF \E i \in 1..Len(LowerLetters) : SubSeq(LowerLetters, i, i) = c
    THEN LET i == CHOOSE j \in 1..Len(LowerLetters) : SubSeq(LowerLetters, j, j) = c
         IN  SubSeq(UpperLetters, i, i)
    ELSE c

LowerChar(c) ==
    IF \E i \in 1..Len(UpperLetters) : SubSeq(UpperLetters, i, i) = c
    THEN LET i == CHOOSE j \in 1..Len(UpperLetters) : SubSeq(UpperLetters, j, j) = c
         IN  SubSeq(LowerLetters, i, i)
    ELSE c

\* str.lower
Lower(s) == Once([i \in 1..Len(s) |-> LowerChar(SubSeq(s, i, i))], Str)

\* k in s
Contains(s, k) == \E i \in 1..(Len(s) - Len(k) + 1) : SubSeq(s, i, i + Len(k) - 1) = k

\* s[:n]
Prefix(s, n) == SubSeq(s, 1, Min(Len(s), n))

\* every character of s is in set
AllIn(s, set) == \A i \in 1..Len(s) : SubSeq(s, i, i) \in set

(***************************************************************************)
(* BaseParser.clean_amount                                                 *)
(***************************************************************************)
CurrencyClass == {"₹", "$", "£", "R", "s"}
CurrencyWords == << <<"I", "N", "R">>, <<"U", "S", "D">>, <<"D", "R">>,
                    <<"C", "r">>, <<"C", "R">>, <<"d", "r">>, <<"c", "r">> >>

\* re.sub(r'[₹$£Rs]|INR|USD|DR|Cr|CR|dr|cr', '', s): leftmost match, the
\* alternatives tried in the order written
RECURSIVE StripCurrency(_)
StripCurrency(s) ==
    IF s = <<>> THEN <<>>
    ELSE IF Head(s) \in CurrencyClass THEN StripCurrency(Tail(s))
    ELSE IF \E k \in 1..Len(CurrencyWords) : HasPrefix(s, CurrencyWords[k])
         THEN LET k == CHOOSE j \in 1..Len(CurrencyWords) :
                          /\ HasPrefix(s, CurrencyWords[j])
                          /\ \A i \in 1..(j - 1) : ~HasPrefix(s, CurrencyWords[i])
              IN  StripCurrency(SubSeq(s, Len(CurrencyWords[k]) + 1, Len(s)))
    ELSE <<Head(s)>> \o StripCurrency(Tail(s))

Without(s, c) == SelectChars(s, {s[i] : i \in 1..Len(s)} \ {c})

LastIndexOf(s, c) == CHOOSE i \in 1..Len(s) : s[i] = c /\ \A j \in (i + 1)..Len(s) : s[j] # c

\* ''.join(parts[:-1]) + '.' + parts[-1] for parts = cleaned.split('.')
KeepLastPoint(s) ==
    LET k == LastIndexOf(s, ".")
    IN  Without(SubSeq(s, 1, k - 1), ".") \o <<".">> \o SubSeq(s, k + 1, Len(s))

\* raises TypeError (re.sub on a non-string) exactly when CleanAmountRaises
CleanAmountRaises(amount_str) == amount_str # EmptyStr /\ ~IsStr(amount_str)

\* ".00" put after an amount without a decimal point (the step the code
\* leaves as a no-op)
clean_amount_TwoDecimals(amount_str) ==
    IF amount_str = EmptyStr \/ amount_str = NOT_FOUND THEN amount_str
    ELSE LET cleaned == SelectChars(Without(Strip(StripCurrency(amount_str)), " "),
                                    Digits \cup {"."})
         IN  IF cleaned # <<>> /\ CountOf(cleaned, ".") = 0
             THEN cleaned \o <<".", "0", "0">>
             ELSE IF CountOf(cleaned, ".") > 1 THEN KeepLastPoint(cleaned) ELSE cleaned

clean_amount(amount_str) ==
    IF amount_str = EmptyStr \/ amount_str = NOT_FOUND THEN amount_str
    ELSE Once(Strip(StripCurrency(amount_str)), LAMBDA c1 :
         Once(Without(c1, " "), LAMBDA c2 :
         Once(IF "." \in {c2[i] : i \in 1..Len(c2)} THEN Without(c2, ",")
              ELSE IF "," \in {c2[i] : i \in 1..Len(c2)} THEN Without(c2, ",")
              ELSE c2, LAMBDA c3 :
         Once(SelectChars(c3, Digits \cup {"."}), LAMBDA c4 :
         Once(IF CountOf(c4, ".") > 1 THEN KeepLastPoint(c4) ELSE c4, LAMBDA c5 :
         Strip(c5))))))

(***************************************************************************)
(* StatementData                                                           *)
(***************************************************************************)
RequiredFields == <<"card_last_4", "statement_date", "payment_due_date",
                    "total_amount_due", "minimum_payment">>
AmountFields == {"total_amount_due", "minimum_payment", "credit_limit", "available_credit"}
ValueFields == {"card_last_4", "statement_date", "payment_due_date", "total_amount_due",
                "minimum_payment", "statement_period_start", "statement_period_end",
                "credit_limit", "available_credit"}

PreviewLen == 500

\* StatementData(bank_name=..., extraction_method=...) with the dataclass defaults
NewStatement(bank_name, method, preview) ==
    [bank_name |-> bank_name,
     card_last_4 |-> NOT_FOUND, statement_date |-> NOT_FOUND,
     payment_due_date |-> NOT_FOUND, total_amount_due |-> NOT_FOUND,
     minimum_payment |-> NOT_FOUND, statement_period_start |-> NOT_FOUND,
     statement_period_end |-> NOT_FOUND, credit_limit |-> NOT_FOUND,
     available_credit |-> NOT_FOUND,
     extraction_method |-> method, confidence_score |-> 0,
     transactions |-> <<>>, raw_text_preview |-> preview, errors |-> <<>>]

FoundCount(st) ==
    Cardinality({i \in 1..Len(RequiredFields) : st[RequiredFields[i]] # NOT_FOUND})

\* the sentinels counted instead of the values
ConfidenceOf_CountsMissing(st) ==
    ((Len(RequiredFields) - FoundCount(st)) * 100) \div Len(RequiredFields)

\* found / len(required), in hundredths
ConfidenceOf(st) == (FoundCount(st) * 100) \div Len(RequiredFields)

\* the score left as it was
calculate_confidence_Stale(st) == st

calculate_confidence(st) == [st EXCEPT !.confidence_score = ConfidenceOf(st)]

is_valid(st) ==
    /\ st.card_last_4 # NOT_FOUND
    /\ st.total_amount_due # NOT_FOUND
    /\ st.payment_due_date # NOT_FOUND

\* asdict(self) plus transaction_count
to_dict(st) == st @@ [transaction_count |-> Len(st.transactions)]

(***************************************************************************)
(* BankDetector.detect over config.BANK_IDENTIFIERS                        *)
(***************************************************************************)
BANK_IDENTIFIERS ==
    << [key |-> "hdfc", ids |-> <<"HDFC BANK", "HDFC", "HDFC CREDIT CARD">>],
       [key |-> "axis", ids |-> <<"AXIS BANK", "AXIS", "FLIPKART AXIS">>],
       [key |-> "icici", ids |-> <<"ICICI BANK", "ICICI", "ICICI CREDIT">>],
       [key |-> "idfc", ids |-> <<"IDFC FIRST BANK", "IDFC FIRST", "IDFC BANK", "IDFC">>],
       [key |-> "syndicate",
        ids |-> <<"SYNDICATE BANK", "CANARA BANK", "GLOBAL CREDIT CARD">>] >>

REGEX_SUPPORTED_BANKS == {"hdfc", "axis", "icici", "idfc", "syndicate"}

\* str.upper
Upper(s) == Once([i \in 1..Len(s) |-> UpperChar(SubSeq(s, i, i))], Str)

\* some identifier of bank b is in text_upper
BankHit(b, text_upper) ==
    \E identifier \in {Upper(BANK_IDENTIFIERS[b].ids[j]) : j \in 1..Len(BANK_IDENTIFIERS[b].ids)} :
        Contains(text_upper, identifier)

\* the last bank of the table with a hit, instead of the first
detect_LastHit(text) ==
    LET text_upper == Upper(text)
    IN  IF \E b \in 1..Len(BANK_IDENTIFIERS) : BankHit(b, text_upper)
        THEN LET b == CHOOSE k \in 1..Len(BANK_IDENTIFIERS) :
                          /\ BankHit(k, text_upper)
                          /\ \A i \in (k + 1)..Len(BANK_IDENTIFIERS) : ~BankHit(i, text_upper)
             IN  BANK_IDENTIFIERS[b].key
        ELSE None

detect(text) ==
    Once(Upper(text), LAMBDA text_upper :
        IF \E b \in 1..Len(BANK_IDENTIFIERS) : BankHit(b, text_upper)
        THEN LET b == CHOOSE k \in 1..Len(BANK_IDENTIFIERS) :
                          /\ BankHit(k, text_upper)
                          /\ \A i \in 1..(k - 1) : ~BankHit(i, text_upper)
             IN  BANK_IDENTIFIERS[b].key
        ELSE None)

(***************************************************************************)
(* The pattern engines (HDFCParser ... SyndicateParser).parse              *)
(***************************************************************************)
\* UnifiedCreditCardParser.__init__: self.regex_parsers
regex_parsers ==
    [hdfc |-> [bank_name |-> "HDFC Bank", method |-> "regex_hdfc"],
     axis |-> [bank_name |-> "Axis Bank", method |-> "regex_axis"],
     icici |-> [bank_name |-> "ICICI Bank", method |-> "regex_icici"],
     idfc |-> [bank_name |-> "IDFC First Bank", method |-> "regex_idfc"],
     syndicate |-> [bank_name |-> "Syndicate Bank", method |-> "regex_syndicate"]]

\* the fields for which the engine has a pattern list
PatternFields(bank) ==
    IF bank = "syndicate"
    THEN ValueFields \ {"statement_period_start", "statement_period_end"}
    ELSE ValueFields

\* self.clean_amount(x) if x != "NOT_FOUND" else "NOT_FOUND"
CleanCaptured(x) == IF x # NOT_FOUND THEN clean_amount(x) ELSE NOT_FOUND

\* scan.cap[f] is what extract_with_pattern(text, self.patterns[f]) returns and
\* scan.txns what self.extract_transactions(text) returns
RegexParse(bank, text, scan) ==
    LET base == NewStatement(regex_parsers[bank].bank_name,
                             <<regex_parsers[bank].method>>,
                             IF bank = "hdfc" THEN Min(text.len, PreviewLen) ELSE 0)
        filled == [f \in DOMAIN base |->
                     IF f \in PatternFields(bank)
                     THEN IF f \in AmountFields THEN CleanCaptured(scan.cap[f])
                          ELSE scan.cap[f]
                     ELSE IF f = "transactions" THEN scan.txns
                     ELSE base[f]]
    IN  calculate_confidence(filled)

(***************************************************************************)
(* GeminiAIParser                                                          *)
(***************************************************************************)
MaxBackendText == 15000

\* the whole text, without the cut
TextToSend_Whole(text) == text.len

\* text[:15000] if len(text) > 15000 else text
TextToSend(text) == IF text.len > MaxBackendText THEN MaxBackendText ELSE text.len

Get(d, k, default) == IF k \in DOMAIN d THEN d[k] ELSE default

OrNotFound(v) == IF v # EmptyStr THEN v ELSE NOT_FOUND

Msg(prefix, e) == <<prefix, e>>

_create_failed_statement(error_message) ==
    [NewStatement("Unknown", <<"ai_gemini_failed">>, 0) EXCEPT !.errors = <<error_message>>]

\* clean_amount raises on one of the four amounts of the answer
CreateFromAIRaises(ai_data) ==
    \E f \in AmountFields : CleanAmountRaises(Get(ai_data, f, NOT_FOUND))

_create_statement_from_ai(ai_data, text, txns) ==
    LET base == NewStatement(Get(ai_data, "bank_name", "Unknown Bank"),
                             <<"ai_gemini">>, Min(text.len, PreviewLen))
        filled == [f \in DOMAIN base |->
                     IF f \in AmountFields
                     THEN OrNotFound(clean_amount(Get(ai_data, f, NOT_FOUND)))
                     ELSE IF f \in ValueFields THEN Get(ai_data, f, NOT_FOUND)
                     ELSE IF f = "transactions" THEN txns
                     ELSE base[f]]
    IN  calculate_confidence(filled)

\* GeminiAIParser.parse once _call_gemini_api has answered with resp
AIParseResult(resp, text, txns) ==
    IF resp.outcome = "raise"
    THEN _create_failed_statement(Msg("AI Parser error: ", resp.error))
    ELSE IF resp.outcome = "success"
    THEN IF CreateFromAIRaises(resp.data)
         THEN _create_failed_statement(Msg("AI Parser error: ", "TypeError"))
         ELSE _create_statement_from_ai(resp.data, text, txns)
    ELSE _create_failed_statement(resp.error)

EnhanceFields == <<"card_last_4", "total_amount_due", "payment_due_date", "minimum_payment">>

\* every enhanceable field treated as missing
MissingFields_All(st) == EnhanceFields

\* every required field asked of the backend, the statement date included
MissingFields_Required(st) == SelectSeq(RequiredFields, LAMBDA f : st[f] = NOT_FOUND)

MissingFields(st) == SelectSeq(EnhanceFields, LAMBDA f : st[f] = NOT_FOUND)

\* the loop over missing_fields; stops where clean_amount raises
RECURSIVE FillMissing(_, _, _)
FillMissing(st, fields, ai_data) ==
    IF fields = <<>> THEN [st |-> st, raised |-> FALSE]
    ELSE LET field == Head(fields)
         IN  IF field \in DOMAIN ai_data /\ ai_data[field] # NOT_FOUND
             THEN IF field \in AmountFields /\ CleanAmountRaises(ai_data[field])
                  THEN [st |-> st, raised |-> TRUE]
                  ELSE LET value == IF field \in AmountFields
                                    THEN clean_amount(ai_data[field])
                                    ELSE ai_data[field]
                       IN  FillMissing([st EXCEPT ![field] = value], Tail(fields), ai_data)
             ELSE FillMissing(st, Tail(fields), ai_data)

\* the method replaced instead of extended
EnhancedMethod_Replaced(method) == <<"ai_enhanced">>

EnhancedMethod(method) == Append(method, "ai_enhanced")

AddError(st, m) == [st EXCEPT !.errors = Append(@, m)]

\* enhance_regex_results once _call_gemini_api has answered with resp
EnhanceResult(st, resp) ==
    IF resp.outcome = "raise"
    THEN calculate_confidence(AddError(st, Msg("AI enhancement failed: ", resp.error)))
    ELSE IF resp.outcome = "success"
    THEN LET r == FillMissing(st, MissingFields(st), resp.data)
         IN  IF r.raised
             THEN calculate_confidence(AddError(r.st, Msg("AI enhancement failed: ", "TypeError")))
             ELSE calculate_confidence(
                      [r.st EXCEPT !.extraction_method = EnhancedMethod(@)])
    ELSE calculate_confidence(st)

(***************************************************************************)
(* Inputs                                                                  *)
(***************************************************************************)
Card1 == <<"1", "2", "3", "4">>
Card2 == <<"9", "9", "9", "9">>
Date1 == <<"0", "3", "/", "0", "7">>
Date2 == <<"1", "5", "/", "0", "8">>
Amount1 == <<"1", ",", "5">>
AmountRs == <<"R", "s", "7">>
OnlyRs == <<"R", "s">>
OnlyComma == <<",">>
\* a card number as a backend may give it: masked, not the bare suffix
CardMasked == <<"X", "X", "X", "X", "9", "9", "9", "9">>

\* texts the extractor may return: length, leading/trailing blanks, words
TextShapes == { [len |-> 0, ws |-> 0], [len |-> 40, ws |-> 0], [len |-> 99, ws |-> 0],
                [len |-> 100, ws |-> 0], [len |-> 102, ws |-> 3], [len |-> 103, ws |-> 3],
                [len |-> 15001, ws |-> 0] }
TextWords == { "statement", "hdfc bank", "Axis Bank", "ICICI BANK AXIS", "ICICI",
               "IDFC FIRST", "GLOBAL CREDIT CARD" }
Texts == { [len |-> sh.len, ws |-> sh.ws, words |-> w] : sh \in TextShapes, w \in TextWords }

NoText == [len |-> 0, ws |-> 0, words |-> ""]

\* what the field patterns of an engine can capture
Captures ==
    { [card_last_4 |-> c, statement_date |-> sd, payment_due_date |-> dd,
       total_amount_due |-> t, minimum_payment |-> m,
       statement_period_start |-> Date1, statement_period_end |-> Date2,
       credit_limit |-> Amount1, available_credit |-> NOT_FOUND] :
      c \in {NOT_FOUND, Card1}, sd \in {NOT_FOUND, Date1}, dd \in {NOT_FOUND, Date1},
      t \in {NOT_FOUND, Amount1, OnlyComma}, m \in {NOT_FOUND, Amount1} }

Txn1 == [date |-> Date1, description |-> "SWIGGY", amount |-> <<"₹", "1", "5">>,
         category |-> "Dining"]

RECURSIVE SeqsUpTo(_, _)
SeqsUpTo(S, n) ==
    IF n = 0 THEN {<<>>}
    ELSE SeqsUpTo(S, n - 1) \cup
         {Append(q, x) : q \in {r \in SeqsUpTo(S, n - 1) : Len(r) = n - 1}, x \in S}

TxnLists == SeqsUpTo({Txn1}, MaxTxns)

Scans == [cap : Captures, txns : TxnLists]

Absent == <<"<absent>">>

\* the JSON object of a successful answer: a key is absent or carries a value
AiObjects ==
    { [card_last_4 |-> c, statement_date |-> sd, payment_due_date |-> dd,
       total_amount_due |-> t, minimum_payment |-> m] :
      c \in {Absent, NOT_FOUND, Card2, CardMasked}, sd \in {NOT_FOUND, Date2},
      dd \in {NOT_FOUND, Date2}, t \in {NOT_FOUND, AmountRs, OnlyRs, JsonNumber},
      m \in {NOT_FOUND, AmountRs} }

DropAbsent(o) == [k \in {f \in DOMAIN o : o[f] # Absent} |-> o[k]]

NoData == [status |-> "failed"]

\* what _call_gemini_api does: returns the parsed object, returns the
\* "Empty response" dict, or raises (transport error, timeout, HTTP status,
\* undecodable or ill-shaped JSON)
Responses ==
    { [outcome |-> "success", data |-> DropAbsent(o), error |-> <<"">>] : o \in AiObjects }
    \cup { [outcome |-> "failed", data |-> NoData, error |-> <<"Empty response from AI">>] }
    \cup { [outcome |-> "raise", data |-> NoData, error |-> e] : e \in {"Timeout", "JSONDecodeError"} }

NoResponse == [outcome |-> "none", data |-> NoData, error |-> <<"">>]

Faults == {"pdf damaged", "MemoryError"}

NoStatement == NewStatement("", <<>>, 0)
Pending == [status |-> "PENDING"]

(***************************************************************************)
(* UnifiedCreditCardParser.parse                                           *)
(***************************************************************************)
MinTextLen == 100
ConfidenceThreshold == 80

Called(stage, arg) == Append(calls, <<stage, arg>>)

\* the length test without the strip
Insufficient_Unstripped(text) == text.len = 0 \/ text.len < MinTextLen

\* not full_text or len(full_text.strip()) < 100
Insufficient(text) == text.len = 0 \/ text.len - text.ws < MinTextLen

InsufficientResult ==
    [status |-> "FAILED",
     reason |-> <<"Could not extract sufficient text from PDF">>,
     extraction_method |-> "none"]

\* the except clause with a fixed reason in place of str(e)
OnException_FixedReason(e) ==
    [status |-> "FAILED", reason |-> <<"Parsing failed">>, extraction_method |-> "error"]

\* the except clause of parse
OnException(e) == [status |-> "FAILED", reason |-> e, extraction_method |-> "error"]

\* the strategy test with only the force flag
UseAI_ForcedOnly(force, bank) == force

\* force_ai or not detected_bank or detected_bank not in REGEX_SUPPORTED_BANKS
UseAI(force, bank) == force \/ bank = None \/ bank \notin REGEX_SUPPORTED_BANKS

\* the enhancement test with <= for <
NeedsEnhancement_AtMost(bank, st) ==
    \/ bank = "axis" /\ Len(st.transactions) = 0
    \/ st.confidence_score <= ConfidenceThreshold

NeedsEnhancement(bank, st) ==
    \/ bank = "axis" /\ Len(st.transactions) = 0
    \/ st.confidence_score < ConfidenceThreshold

\* the status taken from the confidence score instead of is_valid
StatusOf_ByConfidence(st) ==
    IF st.confidence_score >= ConfidenceThreshold THEN "SUCCESS" ELSE "PARTIAL"

StatusOf(st) == IF is_valid(st) THEN "SUCCESS" ELSE "PARTIAL"

\* the record returned without its status set
FinalResult_NoStatus(st) == Pending @@ to_dict(st)

FinalResult(st) == [status |-> StatusOf(st)] @@ to_dict(st)

\* no helper function is being applied on its own
NoHelper ==
    /\ fn = ""
    /\ args = <<>>
    /\ ret = <<>>

\* no parse call is in progress
IdleCall ==
    /\ pc = "idle"
    /\ force_ai = FALSE
    /\ full_text = NoText
    /\ detected_bank = None
    /\ statement = NoStatement
    /\ text_sent = -1
    /\ result = Pending
    /\ calls = <<>>
    /\ draft = NoStatement
    /\ ai_resp = NoResponse
    /\ raised = <<>>

Init ==
    /\ api_key \in {"", "key"}
    /\ IdleCall
    /\ NoHelper

Parse(force) ==
    /\ pc = "idle"
    /\ pc' = "extract"
    /\ force_ai' = force
    /\ UNCHANGED <<helperVars, api_key, full_text, detected_bank, statement, text_sent, result,
                   calls, draft, ai_resp, raised>>

ExtractReturns(text) ==
    /\ pc = "extract"
    /\ full_text' = text
    /\ calls' = Called("extract", "")
    /\ IF Insufficient(text)
       THEN result' = InsufficientResult /\ pc' = "done"
       ELSE result' = result /\ pc' = "detect"
    /\ UNCHANGED <<helperVars, api_key, force_ai, detected_bank, statement, text_sent, draft,
                   ai_resp, raised>>

\* an exception reaches the except clause of parse
Caught(stage, e) ==
    /\ raised' = Append(raised, <<stage, e>>)
    /\ result' = OnException(e)
    /\ pc' = "done"

ExtractRaises(e) ==
    /\ pc = "extract"
    /\ calls' = Called("extract", "")
    /\ Caught("extract", Msg("PDF text extraction failed: ", e))
    /\ UNCHANGED <<helperVars, api_key, force_ai, full_text, detected_bank, statement, text_sent,
                   draft, ai_resp>>

Detect ==
    /\ pc = "detect"
    /\ calls' = Called("detect", "")
    /\ detected_bank' = detect(full_text.words)
    /\ pc' = IF UseAI(force_ai, detected_bank') THEN "ai_parse" ELSE "regex"
    /\ UNCHANGED <<helperVars, api_key, force_ai, full_text, statement, text_sent, result, draft,
                   ai_resp, raised>>

DetectRaises(e) ==
    /\ pc = "detect"
    /\ calls' = Called("detect", "")
    /\ Caught("detect", <<e>>)
    /\ UNCHANGED <<helperVars, api_key, force_ai, full_text, detected_bank, statement, text_sent,
                   draft, ai_resp>>

RegexReturns(scan) ==
    /\ pc = "regex"
    /\ detected_bank \in DOMAIN regex_parsers
    /\ calls' = Called("regex_parse", detected_bank)
    /\ statement' = RegexParse(detected_bank, full_text, scan)
    /\ pc' = IF NeedsEnhancement(detected_bank, statement') /\ api_key # ""
             THEN "enhance" ELSE "final"
    /\ UNCHANGED <<helperVars, api_key, force_ai, full_text, detected_bank, text_sent, result,
                   draft, ai_resp, raised>>

RegexRaises(e) ==
    /\ pc = "regex"
    /\ IF detected_bank \in DOMAIN regex_parsers
       THEN calls' = Called("regex_parse", detected_bank)
       ELSE calls' = calls /\ e = "KeyError"
    /\ Caught("regex_parse", <<e>>)
    /\ UNCHANGED <<helperVars, api_key, force_ai, full_text, detected_bank, statement, text_sent,
                   draft, ai_resp>>

\* GeminiAIParser.parse up to the call of the backend
AIParse ==
    /\ pc = "ai_parse"
    /\ calls' = Called("ai_parse", "")
    /\ IF api_key = ""
       THEN /\ statement' = _create_failed_statement(<<"Gemini API key not configured">>)
            /\ text_sent' = text_sent
            /\ pc' = "final"
       ELSE /\ statement' = statement
            /\ text_sent' = TextToSend(full_text)
            /\ pc' = "ai_call"
    /\ UNCHANGED <<helperVars, api_key, force_ai, full_text, detected_bank, result, draft, ai_resp,
                   raised>>

\* the backend answers; GeminiAIParser.parse builds its record
AIAnswers(resp, txns) ==
    /\ pc = "ai_call"
    /\ calls' = Called("backend", "")
    /\ ai_resp' = resp
    /\ statement' = AIParseResult(resp, full_text, txns)
    /\ raised' = IF resp.outcome = "raise" THEN Append(raised, <<"backend", <<resp.error>> >>)
                 ELSE IF resp.outcome = "success" /\ CreateFromAIRaises(resp.data)
                 THEN Append(raised, <<"ai_parse", <<"TypeError">> >>)
                 ELSE raised
    /\ pc' = "final"
    /\ UNCHANGED <<helperVars, api_key, force_ai, full_text, detected_bank, text_sent, result, draft>>

\* enhance_regex_results up to the call of the backend
Enhance ==
    /\ pc = "enhance"
    /\ calls' = Called("enhance", "")
    /\ draft' = statement
    /\ IF api_key = "" \/ MissingFields(statement) = <<>>
       THEN text_sent' = text_sent /\ pc' = "final"
       ELSE text_sent' = Min(full_text.len, MaxBackendText) /\ pc' = "enh_call"
    /\ UNCHANGED <<helperVars, api_key, force_ai, full_text, detected_bank, statement, result,
                   ai_resp, raised>>

\* the backend answers; enhance_regex_results merges
EnhanceAnswers(resp) ==
    /\ pc = "enh_call"
    /\ calls' = Called("backend", "")
    /\ ai_resp' = resp
    /\ statement' = EnhanceResult(statement, resp)
    /\ raised' = IF resp.outcome = "raise" THEN Append(raised, <<"backend", <<resp.error>> >>)
                 ELSE IF resp.outcome = "success"
                         /\ FillMissing(statement, MissingFields(statement), resp.data).raised
                 THEN Append(raised, <<"enhance", <<"TypeError">> >>)
                 ELSE raised
    /\ pc' = "final"
    /\ UNCHANGED <<helperVars, api_key, force_ai, full_text, detected_bank, text_sent, result, draft>>

Final ==
    /\ pc = "final"
    /\ calls' = Called("final", "")
    /\ result' = FinalResult(statement)
    /\ pc' = "done"
    /\ UNCHANGED <<helperVars, api_key, force_ai, full_text, detected_bank, statement, text_sent,
                   draft, ai_resp, raised>>

\* parse has returned result; the caller may call again
Return ==
    /\ pc = "done"
    /\ pc' = "idle"
    /\ force_ai' = FALSE
    /\ full_text' = NoText
    /\ detected_bank' = None
    /\ statement' = NoStatement
    /\ text_sent' = -1
    /\ result' = Pending
    /\ calls' = <<>>
    /\ draft' = NoStatement
    /\ ai_resp' = NoResponse
    /\ raised' = <<>>
    /\ UNCHANGED <<helperVars, api_key>>

Next ==
    \/ \E force \in BOOLEAN : Parse(force)
    \/ \E text \in Texts : ExtractReturns(text)
    \/ \E e \in Faults : ExtractRaises(e)
    \/ Detect
    \/ \E e \in Faults : DetectRaises(e)
    \/ \E scan \in Scans : RegexReturns(scan)
    \/ \E e \in Faults \cup {"KeyError"} : RegexRaises(e)
    \/ AIParse
    \/ \E resp \in Responses, txns \in TxnLists : AIAnswers(resp, txns)
    \/ Enhance
    \/ \E resp \in Responses : EnhanceAnswers(resp)
    \/ Final
    \/ Return

Spec == Init /\ [][Next]_vars

(***************************************************************************)
(* Properties                                                              *)
(***************************************************************************)
WasCalled(stage) == \E i \in 1..Len(calls) : calls[i][1] = stage

RaisedAt(stage) == \E i \in 1..Len(raised) : raised[i][1] = stage

Finished == pc \in {"final", "done"}

\* the record the pattern engine returned, before any enhancement
DraftRecord == IF WasCalled("enhance") THEN draft ELSE statement

Present(st, f) == st[f] # NOT_FOUND

\* the backend was not available to the adapter in this call
BackendUnavailable ==
    \/ api_key = ""
    \/ ai_resp.outcome \in {"raise", "failed"}

\* C1: when full extraction was selected and the backend is unavailable
\* (no credentials, the call raises, or it answers without a result), parse
\* returns status FAILED.
C1_FallbackUnavailableFails ==
    (pc = "done" /\ WasCalled("ai_parse") /\ BackendUnavailable)
        => result.status = "FAILED"

C3_InsufficientTextFailsFast ==
    (/\ pc \notin {"idle", "extract"}
     /\ ~RaisedAt("extract")
     /\ (full_text.len = 0 \/ full_text.len - full_text.ws < 100))
        => /\ pc = "done"
           /\ result.status = "FAILED"
           /\ result.reason = <<"Could not extract sufficient text from PDF">>
           /\ calls = << <<"extract", "">> >>

C3_Witness ==
    /\ pc = "done"
    /\ full_text.len = 102
    /\ full_text.ws = 3
    /\ result.status = "FAILED"
    /\ calls = << <<"extract", "">> >>

\* C4: once the issuer is detected, full extraction is selected exactly
\* when the caller forces it, no issuer was detected, or the issuer has no
\* registered pattern engine; otherwise the one engine run is the engine
\* registered for the detected issuer.
C4_StrategySelection ==
    (WasCalled("detect") /\ ~RaisedAt("detect")) =>
        LET fallback == \/ force_ai
                        \/ detected_bank = None
                        \/ detected_bank \notin DOMAIN regex_parsers
            onAI == pc \in {"ai_parse", "ai_call"} \/ WasCalled("ai_parse")
            onRegex == pc = "regex" \/ WasCalled("regex_parse")
        IN  /\ onAI <=> fallback
            /\ onRegex <=> ~fallback
            /\ \A i \in 1..Len(calls) :
                   calls[i][1] = "regex_parse" =>
                       /\ calls[i][2] = detected_bank
                       /\ detected_bank \in DOMAIN regex_parsers
                       /\ \A j \in 1..Len(calls) : calls[j][1] = "regex_parse" => j = i

C4_Witness ==
    /\ pc = "final"
    /\ ~force_ai
    /\ detected_bank = None
    /\ WasCalled("ai_parse")
    /\ ~WasCalled("regex_parse")

\* C5: a call that reaches final assembly returns SUCCESS exactly when card
\* suffix, total due and due date of the final (post-enhancement) record are
\* present, and PARTIAL otherwise.
C5_StatusIsValidity ==
    (pc = "done" /\ WasCalled("final")) =>
        /\ \A f \in ValueFields : result[f] = statement[f]
        /\ result.status =
               IF /\ result.card_last_4 # NOT_FOUND
                  /\ result.total_amount_due # NOT_FOUND
                  /\ result.payment_due_date # NOT_FOUND
               THEN "SUCCESS" ELSE "PARTIAL"

C5_Witness ==
    /\ pc = "done"
    /\ WasCalled("enhance")
    /\ draft.card_last_4 = NOT_FOUND
    /\ draft.confidence_score = 80
    /\ result.status = "SUCCESS"

\* C6: enhancement is invoked exactly when the pattern engine ran,
\* credentials are configured, and the draft's confidence is below 0.8 or
\* the issuer is axis and the draft has no transactions; never on the
\* full-extraction path, never without credentials.
C6_EnhancementTrigger ==
    LET invoked == pc = "enhance" \/ WasCalled("enhance")
    IN  /\ (WasCalled("regex_parse") /\ ~RaisedAt("regex_parse")) =>
               (invoked <=>
                   /\ api_key # ""
                   /\ \/ DraftRecord.confidence_score < 80
                      \/ detected_bank = "axis" /\ Len(DraftRecord.transactions) = 0)
        /\ invoked => WasCalled("regex_parse")
        /\ (WasCalled("ai_parse") \/ api_key = "") => ~invoked

C6_Witness ==
    /\ pc = "done"
    /\ WasCalled("enhance")
    /\ detected_bank = "axis"
    /\ draft.confidence_score = 100
    /\ Len(draft.transactions) = 0

\* C7: after enhance_regex_results, a field that was present in the draft
\* keeps its value whatever the backend returned for it, and a field that
\* was NOT_FOUND changes only if the backend returned a non-sentinel value
\* for it.
C7_EnhancementNonDestructive ==
    (WasCalled("enhance") /\ Finished) =>
        \A f \in ValueFields :
            /\ draft[f] # NOT_FOUND => statement[f] = draft[f]
            /\ statement[f] # draft[f] =>
                   /\ ai_resp.outcome = "success"
                   /\ f \in DOMAIN ai_resp.data
                   /\ ai_resp.data[f] # NOT_FOUND

C7_Witness ==
    /\ pc = "done"
    /\ WasCalled("enhance")
    /\ draft.card_last_4 = Card1
    /\ ai_resp.outcome = "success"
    /\ "card_last_4" \in DOMAIN ai_resp.data
    /\ ai_resp.data.card_last_4 = Card2
    /\ statement.card_last_4 = Card1
    /\ draft.total_amount_due = NOT_FOUND
    /\ statement.total_amount_due = <<"7">>

\* the external call of the enhancement failed
EnhancementFailed ==
    /\ WasCalled("enhance")
    /\ Finished
    /\ \/ ai_resp.outcome \in {"raise", "failed"}
       \/ RaisedAt("enhance")

\* C8: when the external call made during enhancement fails, the record
\* returned equals the draft in every field, the transactions and the
\* extraction method; nothing but an appended error note differs.
C8_FailedEnhancementKeepsRecord ==
    EnhancementFailed =>
        /\ \A f \in DOMAIN draft \ {"errors", "confidence_score"} : statement[f] = draft[f]
        /\ Len(statement.errors) \in {Len(draft.errors), Len(draft.errors) + 1}
        /\ SubSeq(statement.errors, 1, Len(draft.errors)) = draft.errors

\* C9: if the draft misses a required field and the backend succeeds with a
\* non-sentinel string for each required field, then after enhancement all
\* five required fields are present and the confidence is 1.0.
C9_EnhancementCompletesRequired ==
    (/\ WasCalled("enhance")
     /\ Finished
     /\ \E i \in 1..Len(RequiredFields) : draft[RequiredFields[i]] = NOT_FOUND
     /\ ai_resp.outcome = "success"
     /\ ~RaisedAt("enhance")
     /\ \A i \in 1..Len(RequiredFields) :
            /\ RequiredFields[i] \in DOMAIN ai_resp.data
            /\ ai_resp.data[RequiredFields[i]] # NOT_FOUND
            /\ IsStr(ai_resp.data[RequiredFields[i]]))
        => /\ \A i \in 1..Len(RequiredFields) : statement[RequiredFields[i]] # NOT_FOUND
           /\ statement.confidence_score = 100

\* C10: after a successful enhancement the extraction method is the pattern
\* engine's tag followed by the enhancement tag; when enhancement is
\* skipped or fails it is the pattern engine's tag alone.
C10_MethodExtended ==
    (WasCalled("regex_parse") /\ ~RaisedAt("regex_parse") /\ Finished) =>
        LET tag == regex_parsers[detected_bank].method
            succeeded == /\ WasCalled("enhance")
                         /\ ai_resp.outcome = "success"
                         /\ ~RaisedAt("enhance")
        IN  /\ succeeded => statement.extraction_method = <<tag, "ai_enhanced">>
            /\ ~succeeded => statement.extraction_method = <<tag>>
            /\ WasCalled("enhance") => draft.extraction_method = <<tag>>

C10_Witness ==
    /\ pc = "done"
    /\ WasCalled("enhance")
    /\ ai_resp.outcome = "success"
    /\ statement.extraction_method = <<"regex_hdfc", "ai_enhanced">>
    /\ result.extraction_method = <<"regex_hdfc", "ai_enhanced">>

\* the five required fields of a record that do not hold the sentinel
PresentRequired(st) ==
    {f \in {"card_last_4", "statement_date", "payment_due_date", "total_amount_due",
            "minimum_payment"} : st[f] # NOT_FOUND}

\* a record has been returned by a pattern engine, by full extraction or by
\* enhancement in this call
RecordReturned ==
    \/ WasCalled("regex_parse") /\ ~RaisedAt("regex_parse")
    \/ WasCalled("ai_parse") /\ pc # "ai_call"

\* C11: in every record returned by a pattern engine, by full extraction or
\* by enhancement, the stored confidence score is the number of required
\* fields that are not the sentinel divided by 5 (in hundredths: times 20),
\* so it lies in [0, 1]; the result parse returns carries the same score.
C11_ConfidenceMatchesFields ==
    RecordReturned =>
        /\ statement.confidence_score = Cardinality(PresentRequired(statement)) * 20
        /\ statement.confidence_score \in 0..100
        /\ WasCalled("enhance") =>
               draft.confidence_score = Cardinality(PresentRequired(draft)) * 20
        /\ (pc = "done" /\ WasCalled("final")) =>
               result.confidence_score = Cardinality(PresentRequired(statement)) * 20

C11_Witness ==
    /\ pc = "done"
    /\ WasCalled("enhance")
    /\ ai_resp.outcome = "success"
    /\ draft.confidence_score = 40
    /\ statement.confidence_score = 80
    /\ result.confidence_score = 80
    /\ Cardinality(PresentRequired(statement)) = 4

\* values a missing required field may be given
FillValues == {Card1, Date2, <<"7">>, EmptyStr}

\* C12: giving a value to a required field that holds the sentinel, the
\* other fields unchanged, never decreases calculate_confidence; and the
\* confidence after enhancement is at least the
\* confidence of the draft.
C12_ConfidenceMonotone ==
    /\ RecordReturned =>
           \A i \in 1..Len(RequiredFields) : \A v \in FillValues :
               statement[RequiredFields[i]] = NOT_FOUND =>
                   LET filled == [statement EXCEPT ![RequiredFields[i]] = v]
                   IN  calculate_confidence(filled).confidence_score
                           >= calculate_confidence(statement).confidence_score
    /\ (WasCalled("enhance") /\ Finished) =>
           statement.confidence_score >= draft.confidence_score

C12_Witness ==
    /\ pc = "final"
    /\ WasCalled("enhance")
    /\ draft.total_amount_due = NOT_FOUND
    /\ statement.total_amount_due = <<"7">>
    /\ draft.confidence_score = 60
    /\ statement.confidence_score = 80

(***************************************************************************)
(* BaseParser.categorize_transaction                                       *)
(***************************************************************************)
categories ==
    << [name |-> "Groceries",
        keywords |-> {"grocery", "supermarket", "zepto", "blinkit", "bigbasket", "dmart"}],
       [name |-> "Dining",
        keywords |-> {"restaurant", "cafe", "swiggy", "zomato", "food", "starbucks",
                      "mcdonald"}],
       [name |-> "Transportation",
        keywords |-> {"uber", "ola", "fuel", "petrol", "gas", "parking"}],
       [name |-> "Shopping",
        keywords |-> {"amazon", "flipkart", "myntra", "store", "mall"}],
       [name |-> "Entertainment",
        keywords |-> {"netflix", "prime", "spotify", "movie", "cinema"}],
       [name |-> "Utilities",
        keywords |-> {"electric", "water", "internet", "phone", "recharge"}],
       [name |-> "Bills",
        keywords |-> {"payment", "paytm", "phonepe", "gpay"}] >>

CategoryHit(c, desc_lower) == \E kw \in categories[c].keywords : Contains(desc_lower, kw)

categorize_transaction(description) ==
    LET desc_lower == Lower(description)
    IN  IF \E c \in 1..Len(categories) : CategoryHit(c, desc_lower)
        THEN LET c == CHOOSE k \in 1..Len(categories) :
                          /\ CategoryHit(k, desc_lower)
                          /\ \A i \in 1..(k - 1) : ~CategoryHit(i, desc_lower)
             IN  categories[c].name
        ELSE "Other"

(***************************************************************************)
(* The transaction grammars: extract_transactions of HDFCParser, of        *)
(* AxisParser and of BaseParser (inherited by the ICICI, IDFC and          *)
(* Syndicate engines and by GeminiAIParser).  A text is the sequence of    *)
(* its lines and a line the sequence of its whitespace-separated parts,    *)
(* each part a whole date, word, amount or marker.                         *)
(***************************************************************************)
\* re.fullmatch(r'\d{2}/\d{2}/\d{4}', s)
MatchesDate(s) ==
    /\ Len(s) = 10
    /\ \A i \in {1, 2, 4, 5, 7, 8, 9, 10} : SubSeq(s, i, i) \in Digits
    /\ \A i \in {3, 6} : SubSeq(s, i, i) = "/"

\* re.fullmatch(r'\d{2}/\d{2}', s)
MatchesShortDate(s) ==
    /\ Len(s) = 5
    /\ \A i \in {1, 2, 4, 5} : SubSeq(s, i, i) \in Digits
    /\ SubSeq(s, 3, 3) = "/"

\* re.fullmatch(r'[\d,]+\.[\d]{2}', s)
MatchesAmount(s) ==
    /\ Len(s) >= 4
    /\ AllIn(SubSeq(s, 1, Len(s) - 3), Digits \cup {","})
    /\ SubSeq(s, Len(s) - 2, Len(s) - 2) = "."
    /\ AllIn(SubSeq(s, Len(s) - 1, Len(s)), Digits)

\* re.match(r'^\d+\.\d{2}$', s)
MatchesPlainAmount(s) == MatchesAmount(s) /\ AllIn(SubSeq(s, 1, Len(s) - 3), Digits)

\* ' '.join(parts)
RECURSIVE JoinParts(_)
JoinParts(parts) ==
    IF parts = <<>> THEN ""
    ELSE IF Len(parts) = 1 THEN parts[1]
    ELSE parts[1] \o " " \o JoinParts(Tail(parts))

\* self.clean_amount on a str
CleanedAmount(s) == Str(clean_amount(Chars(s)))

\* float(cleaned) == 0 for a cleaned amount
IsZeroAmount(cleaned) == AllIn(cleaned, {"0", "."})

\* the currency mark as base_parser.py writes it, and as combined_parsers.py
\* holds it: the same three bytes read as three characters, the second of
\* which (U+201A) is written as a cedilla here
Rupee == "₹"
RupeeMisread == "â¸¹"

\* the lines from the first one that holds a section heading; the text is cut
\* at the heading, so the heading's own line no longer starts with a date
Section(text, headings) ==
    LET holds(i) == \E h \in headings : Contains(Lower(JoinParts(text[i])), h)
    IN  IF \E i \in 1..Len(text) : holds(i)
        THEN LET i == CHOOSE k \in 1..Len(text) : holds(k) /\ \A j \in 1..(k - 1) : ~holds(j)
             IN  SubSeq(text, i + 1, Len(text))
        ELSE text

RECURSIVE FlatMap(_, _)
FlatMap(Op(_), seq) == IF seq = <<>> THEN <<>> ELSE Op(Head(seq)) \o FlatMap(Op, Tail(seq))

Txn(date, description, amount, category) ==
    [date |-> date, description |-> description, amount |-> amount, category |-> category]

\* f"{txn.date}_{txn.description[:n]}_{txn.amount}"
DedupKey(txn, n) == txn.date \o "_" \o Prefix(txn.description, n) \o "_" \o txn.amount

\* the loop that removes duplicates, keeping the last occurrence of a key
RECURSIVE Unique_KeepLast(_, _, _)
Unique_KeepLast(txns, seen, n) ==
    IF txns = <<>> THEN <<>>
    ELSE IF \E i \in 2..Len(txns) : DedupKey(txns[i], n) = DedupKey(Head(txns), n)
         THEN Unique_KeepLast(Tail(txns), seen, n)
         ELSE <<Head(txns)>> \o Unique_KeepLast(Tail(txns), seen, n)

\* the loop over transactions with the set seen
RECURSIVE Unique(_, _, _)
Unique(txns, seen, n) ==
    IF txns = <<>> THEN <<>>
    ELSE LET key == DedupKey(Head(txns), n)
         IN  IF key \in seen THEN Unique(Tail(txns), seen, n)
             ELSE <<Head(txns)>> \o Unique(Tail(txns), seen \cup {key}, n)

HDFCSections == {"domestic transactions", "transaction details"}
HDFCHeadings == {"PAYMENT DUE DATE", "TOTAL DUES", "MINIMUM AMOUNT", "CREDIT LIMIT"}
HDFCMinDescription == 5
HDFCMaxDescription == 150
HDFCKeyPrefix == 40

\* one line of HDFCParser.extract_transactions: what it appends
HDFCLine(parts) ==
    IF Len(parts) < 2 \/ ~MatchesDate(parts[1]) THEN <<>>
    ELSE LET n == Len(parts)
             is_credit == parts[n] = "Cr"
             a == IF is_credit THEN n - 1 ELSE n
         IN  IF a < 2 \/ ~MatchesAmount(parts[a]) THEN <<>>
             ELSE LET raw == JoinParts(SubSeq(parts, 2, a - 1))
                      cleaned_amount == CleanedAmount(parts[a])
                      description == Prefix(raw, HDFCMaxDescription)
                  IN  IF Len(raw) < HDFCMinDescription THEN <<>>
                      ELSE IF \E skip \in HDFCHeadings : Contains(Upper(raw), skip) THEN <<>>
                      ELSE IF cleaned_amount = "" THEN <<>>
                      ELSE << Txn(parts[1], description,
                                  IF is_credit THEN RupeeMisread \o cleaned_amount \o " Cr"
                                  ELSE RupeeMisread \o cleaned_amount,
                                  categorize_transaction(description)) >>

HDFC_extract_transactions(text) ==
    Unique(FlatMap(HDFCLine, Section(text, HDFCSections)), {}, HDFCKeyPrefix)

AxisSections == {"account summary"}
AxisMaxDescription == 100

\* amount.replace(',', '')
RemoveCommas(s) == Str(SelectChars(Chars(s), {SubSeq(s, i, i) : i \in 1..Len(s)} \ {","}))

\* one line of AxisParser.extract_transactions: what it appends
AxisLine(parts) ==
    IF Len(parts) < 3 THEN <<>>
    ELSE IF Len(parts[1]) < 10 \/ ~MatchesDate(Prefix(parts[1], 10)) THEN <<>>
    ELSE LET n == Len(parts)
             dr_cr == parts[n]
         IN  IF dr_cr \notin {"Dr", "Cr"} THEN <<>>
             ELSE IF ~MatchesPlainAmount(RemoveCommas(parts[n - 1])) THEN <<>>
             ELSE LET description == JoinParts(SubSeq(parts, 2, n - 2))
                      cleaned_amount == CleanedAmount(parts[n - 1])
                  IN  IF cleaned_amount = "" \/ IsZeroAmount(cleaned_amount) THEN <<>>
                      ELSE << Txn(parts[1], Prefix(description, AxisMaxDescription),
                                  IF dr_cr = "Cr" THEN RupeeMisread \o cleaned_amount \o " Cr"
                                  ELSE RupeeMisread \o cleaned_amount,
                                  categorize_transaction(description)) >>

Axis_extract_transactions(text) == FlatMap(AxisLine, Section(text, AxisSections))

BaseMaxDescription == 100
DefaultYear == "2024"

\* pattern1 matches in the line: a date, a description, an amount, and an
\* optional Cr or Dr that no group captures
Pattern1Matches(parts) ==
    /\ Len(parts) >= 3
    /\ MatchesDate(parts[1])
    /\ \E j \in 3..Len(parts) : MatchesAmount(parts[j])

Pattern1Line(parts) ==
    IF ~Pattern1Matches(parts) THEN <<>>
    ELSE LET j == CHOOSE k \in 3..Len(parts) :
                      MatchesAmount(parts[k]) /\ \A i \in 3..(k - 1) : ~MatchesAmount(parts[i])
             description == Prefix(JoinParts(SubSeq(parts, 2, j - 1)), BaseMaxDescription)
             amount == CleanedAmount(parts[j])
         IN  IF amount # "" /\ ~IsZeroAmount(amount)
             THEN << Txn(parts[1], description, Rupee \o amount,
                         categorize_transaction(description)) >>
             ELSE <<>>

\* [A-Z0-9][A-Z0-9\s\*#\-\.]+? over the parts of a description
USDescriptionChars == Digits \cup {SubSeq(UpperLetters, i, i) : i \in 1..Len(UpperLetters)}
                             \cup {"*", "#", "-", "."}

\* \$?([\d,]+\.[\d]{2})
MatchesUSAmount(s) ==
    \/ MatchesAmount(s)
    \/ Len(s) > 1 /\ SubSeq(s, 1, 1) = "$" /\ MatchesAmount(SubSeq(s, 2, Len(s)))

Pattern2Line(parts, year) ==
    IF /\ Len(parts) >= 3
       /\ MatchesShortDate(parts[1])
       /\ \E j \in 3..Len(parts) : MatchesUSAmount(parts[j])
    THEN LET j == CHOOSE k \in 3..Len(parts) :
                      MatchesUSAmount(parts[k]) /\ \A i \in 3..(k - 1) : ~MatchesUSAmount(parts[i])
             words == JoinParts(SubSeq(parts, 2, j - 1))
             description == Prefix(words, BaseMaxDescription)
             amount == CleanedAmount(parts[j])
         IN  IF /\ Len(words) >= 2
                /\ \A i \in 2..(j - 1) : AllIn(parts[i], USDescriptionChars)
                /\ SubSeq(words, 1, 1) \in USDescriptionChars \ {"*", "#", "-", "."}
                /\ amount # ""
                /\ ~IsZeroAmount(amount)
             THEN << Txn(parts[1] \o "/" \o year, description, Rupee \o amount,
                         categorize_transaction(description)) >>
             ELSE <<>>
    ELSE <<>>

\* the year after "Statement Period", else "2024"
StatementYear(text) ==
    LET at(l, i) == /\ i + 2 <= Len(text[l])
                    /\ text[l][i] = "Statement"
                    /\ text[l][i + 1] = "Period"
                    /\ Len(text[l][i + 2]) >= 4
                    /\ AllIn(Prefix(text[l][i + 2], 4), Digits)
        found == {<<l, i>> \in (1..Len(text)) \X (1..8) : at(l, i)}
    IN  IF found = {} THEN DefaultYear
        ELSE LET p == CHOOSE q \in found :
                          \A r \in found : q[1] < r[1] \/ (q[1] = r[1] /\ q[2] <= r[2])
             IN  Prefix(text[p[1]][p[2] + 2], 4)

RECURSIVE Pattern2Lines(_, _)
Pattern2Lines(text, year) ==
    IF text = <<>> THEN <<>>
    ELSE Pattern2Line(Head(text), year) \o Pattern2Lines(Tail(text), year)

Base_extract_transactions(text) ==
    IF \E l \in 1..Len(text) : Pattern1Matches(text[l])
    THEN FlatMap(Pattern1Line, text)
    ELSE Pattern2Lines(text, StatementYear(text))

\* the engines and the extract_transactions each one runs
Parsers == {"hdfc", "axis", "icici", "idfc", "syndicate", "ai"}

extract_transactions(parser, text) ==
    IF parser = "hdfc" THEN HDFC_extract_transactions(text)
    ELSE IF parser = "axis" THEN Axis_extract_transactions(text)
    ELSE Base_extract_transactions(text)

(***************************************************************************)
(* extract_transactions applied on its own                                 *)
(***************************************************************************)
\* most lines of a text
MaxLines == 2

NotReturned == [returned |-> FALSE]
Returned(value) == [returned |-> TRUE, value |-> value]

\* lines of a statement: a debit without marker, the same as a credit, the
\* same as a marked debit, another marked debit, the section headings of
\* HDFC and Axis statements, a line in the US format
Lines ==
    { <<"03/07/2025", "SWIGGY", "ORDER", "15.00">>,
      <<"03/07/2025", "SWIGGY", "ORDER", "15.00", "Cr">>,
      <<"03/07/2025", "SWIGGY", "ORDER", "15.00", "Dr">>,
      <<"04/07/2025", "AMAZON", "1,500.00", "Dr">>,
      <<"Domestic", "Transactions">>,
      <<"Account", "Summary">>,
      <<"01/03", "STARBUCKS", "$5.67">> }

StatementTexts == SeqsUpTo(Lines, MaxLines)

InitTransactions ==
    /\ api_key = ""
    /\ IdleCall
    /\ fn = "extract_transactions"
    /\ args \in [parser : Parsers, text : StatementTexts]
    /\ ret = NotReturned

HDFCExtract ==
    /\ fn = "extract_transactions"
    /\ ~ret.returned
    /\ args.parser = "hdfc"
    /\ ret' = Returned(HDFC_extract_transactions(args.text))
    /\ UNCHANGED <<parseVars, fn, args>>

AxisExtract ==
    /\ fn = "extract_transactions"
    /\ ~ret.returned
    /\ args.parser = "axis"
    /\ ret' = Returned(Axis_extract_transactions(args.text))
    /\ UNCHANGED <<parseVars, fn, args>>

\* ICICIParser, IDFCParser, SyndicateParser and GeminiAIParser inherit
\* BaseParser.extract_transactions
BaseExtract ==
    /\ fn = "extract_transactions"
    /\ ~ret.returned
    /\ args.parser \in {"icici", "idfc", "syndicate", "ai"}
    /\ ret' = Returned(Base_extract_transactions(args.text))
    /\ UNCHANGED <<parseVars, fn, args>>

NextTransactions == HDFCExtract \/ AxisExtract \/ BaseExtract

SpecTransactions == InitTransactions /\ [][NextTransactions]_vars

ExtractReturned == fn = "extract_transactions" /\ ret.returned

\* the text the engine segments: the part from its section heading on
Listing ==
    IF args.parser = "hdfc" THEN Section(args.text, HDFCSections)
    ELSE IF args.parser = "axis" THEN Section(args.text, AxisSections)
    ELSE args.text

\* C13: in the transactions an engine returns, no two share the triple
\* (date, first 40 characters of the description, amount): two lines of the
\* text identical in that triple yield one transaction.
C13_NoDuplicateTransactions ==
    ExtractReturned =>
        \A i, j \in 1..Len(ret.value) :
            (/\ ret.value[i].date = ret.value[j].date
             /\ Prefix(ret.value[i].description, 40) = Prefix(ret.value[j].description, 40)
             /\ ret.value[i].amount = ret.value[j].amount) => i = j

\* a line that ends in the credit marker after a date, a description and an amount
IsCreditLine(parts) ==
    /\ Len(parts) >= 4
    /\ MatchesDate(parts[1])
    /\ MatchesAmount(parts[Len(parts) - 1])
    /\ parts[Len(parts)] = "Cr"

HasCreditTag(amount) == Contains(Upper(amount), "CR")

\* C15: under every grammar, each credit-marked line of the listing is
\* emitted (not dropped) as a transaction of its date whose amount carries a
\* credit tag, and no emitted debit equals an emitted credit in date,
\* description and amount.
C15_CreditsKeepTheirTag ==
    ExtractReturned =>
        /\ \A l \in 1..Len(Listing) :
               IsCreditLine(Listing[l]) =>
                   \E i \in 1..Len(ret.value) :
                       /\ ret.value[i].date = Listing[l][1]
                       /\ HasCreditTag(ret.value[i].amount)
        /\ \A l, m \in 1..Len(Listing) :
               (/\ IsCreditLine(Listing[l])
                /\ Listing[m] = SubSeq(Listing[l], 1, Len(Listing[l]) - 1))
                   => \E i, j \in 1..Len(ret.value) :
                          /\ HasCreditTag(ret.value[i].amount)
                          /\ ~HasCreditTag(ret.value[j].amount)

(***************************************************************************)
(* The de-duplication loops of HDFCParser.extract_transactions and of      *)
(* UniversalCreditCardParser.extract_transactions_from_text, applied on    *)
(* their own to a list of transactions                                     *)
(***************************************************************************)
\* most transactions in the list
MaxDup == 3

UniversalKeyPrefix == 30

RECURSIVE Repeat(_, _)
Repeat(s, n) ==
    IF n = 0 THEN ""
    ELSE IF n % 2 = 1 THEN s \o Repeat(s, n - 1)
    ELSE Once(Repeat(s, n \div 2), LAMBDA half : half \o half)

\* two descriptions that agree on their first 34 characters only
LongDescription1 == Repeat("A", 34) \o "1"
LongDescription2 == Repeat("A", 34) \o "2"

\* a debit, the same as a credit, the same on another day, and two records
\* whose descriptions differ after the 30th and before the 40th character
DupTxns ==
    { Txn("03/07/2025", "SWIGGY ORDER", "₹15.00", "Dining"),
      Txn("03/07/2025", "SWIGGY ORDER", "₹15.00 Cr", "Dining"),
      Txn("04/07/2025", "SWIGGY ORDER", "₹15.00", "Dining"),
      Txn("05/07/2025", LongDescription1, "₹7.00", "Other"),
      Txn("05/07/2025", LongDescription2, "₹7.00", "Other") }

InitDedup ==
    /\ api_key = ""
    /\ IdleCall
    /\ fn = "remove duplicates"
    /\ args \in [prefix : {HDFCKeyPrefix, UniversalKeyPrefix},
                 transactions : SeqsUpTo(DupTxns, MaxDup)]
    /\ ret = NotReturned

\* combined_parsers.py, the loop under "Remove duplicates"
HDFCRemoveDuplicates ==
    /\ fn = "remove duplicates"
    /\ ~ret.returned
    /\ args.prefix = HDFCKeyPrefix
    /\ ret' = Returned(Unique(args.transactions, {}, HDFCKeyPrefix))
    /\ UNCHANGED <<parseVars, fn, args>>

\* parser_unified.py, the loop under "Remove duplicates"
UniversalRemoveDuplicates ==
    /\ fn = "remove duplicates"
    /\ ~ret.returned
    /\ args.prefix = UniversalKeyPrefix
    /\ ret' = Returned(Unique(args.transactions, {}, UniversalKeyPrefix))
    /\ UNCHANGED <<parseVars, fn, args>>

NextDedup == HDFCRemoveDuplicates \/ UniversalRemoveDuplicates

SpecDedup == InitDedup /\ [][NextDedup]_vars

\* the triple (date, description prefix, amount) of a transaction
Triple(txn, n) == <<txn.date, Prefix(txn.description, n), txn.amount>>

\* the positions in txns whose triple occurs at no earlier position
FirstOccurrences(txns, n) ==
    {i \in 1..Len(txns) : \A j \in 1..(i - 1) : Triple(txns[j], n) # Triple(txns[i], n)}

\* the k-th smallest element of a set of numbers
KthOf(S, k) == CHOOSE i \in S : Cardinality({j \in S : j < i}) = k - 1

\* C14: the de-duplicated list is the list of first occurrences of each
\* (date, description prefix, amount) triple, in their original order: later
\* occurrences are dropped, nothing is reordered, no distinct triple is lost.
C14_FirstOccurrenceWins ==
    (fn = "remove duplicates" /\ ret.returned) =>
        LET firsts == FirstOccurrences(args.transactions, args.prefix)
        IN  /\ Len(ret.value) = Cardinality(firsts)
            /\ \A k \in 1..Len(ret.value) :
                   ret.value[k] = args.transactions[KthOf(firsts, k)]

C14_Witness ==
    /\ fn = "remove duplicates"
    /\ ret.returned
    /\ args.prefix = UniversalKeyPrefix
    /\ Len(args.transactions) = 3
    /\ args.transactions[1].description = LongDescription1
    /\ args.transactions[2].date = "03/07/2025"
    /\ args.transactions[3].description = LongDescription2
    /\ ret.value = SubSeq(args.transactions, 1, 2)

(***************************************************************************)
(* BaseParser.extract_with_pattern applied on its own.  A pattern is given *)
(* by what re.search(pattern, text, flags) and match.group(1) do with it.  *)
(***************************************************************************)
\* most patterns in the list
MaxPatterns == 3

\* re.sub(r'\s+', ' ', value) on the characters of value
RECURSIVE CollapseWhitespace(_)
CollapseWhitespace(cs) ==
    IF cs = <<>> THEN <<>>
    ELSE IF Head(cs) \in Whitespace THEN <<" ">> \o CollapseWhitespace(LStrip(cs))
    ELSE <<Head(cs)>> \o CollapseWhitespace(Tail(cs))

\* re.sub(r'\s+', ' ', match.group(1).strip())
CleanCapture(group) == Str(CollapseWhitespace(Strip(Chars(group))))

\* the pattern does not compile (re.error), finds nothing, matches but has
\* no group 1 (IndexError), matches while its group 1 took no part in the
\* match (group(1) is None), or matches with group 1 holding a string
PatternOutcomes ==
    { [kind |-> "re.error"], [kind |-> "no match"], [kind |-> "no group"],
      [kind |-> "group unset"] }
    \cup { [kind |-> "match", group |-> g] : g \in {"1234", " 03 \n JUL ", "  ", ""} }

Raises(error) == [raised |-> TRUE, error |-> error]
Value(v) == [raised |-> FALSE, value |-> v]

\* the last pattern with a non-empty capture instead of the first
RECURSIVE extract_with_pattern_LastWins(_)
extract_with_pattern_LastWins(patterns) ==
    IF patterns = <<>> THEN Value(Str(NOT_FOUND))
    ELSE LET p == patterns[Len(patterns)]
             rest == SubSeq(patterns, 1, Len(patterns) - 1)
         IN  IF p.kind = "group unset" THEN Raises("AttributeError")
             ELSE IF p.kind = "match" /\ CleanCapture(p.group) # ""
             THEN Value(CleanCapture(p.group))
             ELSE extract_with_pattern_LastWins(rest)

\* the loop over patterns; (re.error, IndexError) are caught, others are not
RECURSIVE extract_with_pattern(_)
extract_with_pattern(patterns) ==
    IF patterns = <<>> THEN Value(Str(NOT_FOUND))
    ELSE LET p == Head(patterns)
         IN  IF p.kind \in {"re.error", "no match", "no group"}
             THEN extract_with_pattern(Tail(patterns))
             ELSE IF p.kind = "group unset" THEN Raises("AttributeError")
             ELSE IF CleanCapture(p.group) # "" THEN Value(CleanCapture(p.group))
             ELSE extract_with_pattern(Tail(patterns))

InitPatterns ==
    /\ api_key = ""
    /\ IdleCall
    /\ fn = "extract_with_pattern"
    /\ args \in [patterns : SeqsUpTo(PatternOutcomes, MaxPatterns)]
    /\ ret = NotReturned

ExtractWithPattern ==
    /\ fn = "extract_with_pattern"
    /\ ~ret.returned
    /\ ret' = Returned(extract_with_pattern(args.patterns))
    /\ UNCHANGED <<parseVars, fn, args>>

NextPatterns == ExtractWithPattern

SpecPatterns == InitPatterns /\ [][NextPatterns]_vars

\* the pattern matches with a captured group that is not empty once trimmed
Qualifies(p) ==
    /\ p.kind = "match"
    /\ \E i \in 1..Len(p.group) : SubSeq(p.group, i, i) \notin Whitespace

\* the positions of the qualifying patterns, and of those whose match
\* leaves group 1 unset
Qualifying == {i \in 1..Len(args.patterns) : Qualifies(args.patterns[i])}
Unset == {i \in 1..Len(args.patterns) : args.patterns[i].kind = "group unset"}

\* the first qualifying pattern's capture, trimmed and whitespace-collapsed,
\* is what was returned
ReturnsFirstQualifying ==
    LET first == CHOOSE i \in Qualifying : \A j \in Qualifying : i <= j
    IN  /\ ~ret.value.raised
        /\ ret.value.value = CleanCapture(args.patterns[first].group)
        /\ Chars(ret.value.value) = Strip(Chars(ret.value.value))
        /\ \A i \in 1..Len(ret.value.value) :
               SubSeq(ret.value.value, i, i) \in Whitespace =>
                   /\ SubSeq(ret.value.value, i, i) = " "
                   /\ SubSeq(ret.value.value, i + 1, i + 1) \notin Whitespace

ISSUER_PATTERNS ==
    << [issuer |-> "HDFC", issuer_keywords |-> <<"hdfc", "hdfc bank", "statement of account">>],
       [issuer |-> "ICICI", issuer_keywords |-> <<"icici", "icici bank">>],
       [issuer |-> "SBI", issuer_keywords |-> <<"sbi", "state bank", "state bank of india">>],
       [issuer |-> "Axis", issuer_keywords |-> <<"axis", "axis bank">>],
       [issuer |-> "Kotak", issuer_keywords |-> <<"kotak", "kotak mahindra">>],
       [issuer |-> "Chase", issuer_keywords |-> <<"chase", "jpmorgan chase">>],
       [issuer |-> "Amex", issuer_keywords |-> <<"american express", "amex">>],
       [issuer |-> "Citi", issuer_keywords |-> <<"citibank", "citi">>],
       [issuer |-> "Discover", issuer_keywords |-> <<"discover">>],
       [issuer |-> "BankOfAmerica", issuer_keywords |-> <<"bank of america", "bofa">>] >>

indian_banks == <<"HDFC", "ICICI", "SBI", "Axis", "Kotak">>

Unknown == "Unknown"

InSeq(x, seq) == \E i \in 1..Len(seq) : seq[i] = x

\* some keyword of the i-th issuer is in text_lower
IssuerHit(i, text_lower) ==
    \E j \in 1..Len(ISSUER_PATTERNS[i].issuer_keywords) :
        Contains(text_lower, Lower(ISSUER_PATTERNS[i].issuer_keywords[j]))

\* the first of the given positions of ISSUER_PATTERNS with a hit, 0 if none
FirstIssuerHit(positions, text_lower) ==
    IF \E i \in positions : IssuerHit(i, text_lower)
    THEN CHOOSE i \in positions :
             IssuerHit(i, text_lower) /\ \A k \in positions : k < i => ~IssuerHit(k, text_lower)
    ELSE 0

\* the loop over indian_banks: their positions in ISSUER_PATTERNS, in the
\* order of indian_banks (which is also their order in the dict)
IndianPositions == {i \in 1..Len(ISSUER_PATTERNS) : InSeq(ISSUER_PATTERNS[i].issuer, indian_banks)}
OtherPositions == (1..Len(ISSUER_PATTERNS)) \ IndianPositions

\* the two loops in the other order
detect_issuer_OthersFirst(text) ==
    LET text_lower == Lower(text)
        other == FirstIssuerHit(OtherPositions, text_lower)
        indian == FirstIssuerHit(IndianPositions, text_lower)
    IN  IF other # 0 THEN ISSUER_PATTERNS[other].issuer
        ELSE IF indian # 0 THEN ISSUER_PATTERNS[indian].issuer
        ELSE Unknown

detect_issuer(text) ==
    LET text_lower == Lower(text)
        indian == FirstIssuerHit(IndianPositions, text_lower)
        other == FirstIssuerHit(OtherPositions, text_lower)
    IN  IF indian # 0 THEN ISSUER_PATTERNS[indian].issuer
        ELSE IF other # 0 THEN ISSUER_PATTERNS[other].issuer
        ELSE Unknown

\* pieces of statement text that hold issuer keywords, or none
TextPieces == { "Statement", "hdfc", "ICICI Bank", "Axis", "maxis", "amex",
                "Statement of Account", "Global Credit Card", "Chase", "IDFC" }

DetectorTexts == { a \o " " \o b : a, b \in TextPieces }

InitDetect ==
    /\ api_key = ""
    /\ IdleCall
    /\ fn \in {"BankDetector.detect", "detect_issuer"}
    /\ args \in [text : DetectorTexts]
    /\ ret = NotReturned

BankDetectorDetect ==
    /\ fn = "BankDetector.detect"
    /\ ~ret.returned
    /\ ret' = Returned(detect(args.text))
    /\ UNCHANGED <<parseVars, fn, args>>

DetectIssuer ==
    /\ fn = "detect_issuer"
    /\ ~ret.returned
    /\ ret' = Returned(detect_issuer(args.text))
    /\ UNCHANGED <<parseVars, fn, args>>

NextDetect == BankDetectorDetect \/ DetectIssuer

SpecDetect == InitDetect /\ [][NextDetect]_vars

DetectorReturned == fn \in {"BankDetector.detect", "detect_issuer"} /\ ret.returned

\* the identifier table the called detector walks, in its priority order,
\* and what it returns for no issuer
PriorityTable ==
    IF fn = "BankDetector.detect"
    THEN [i \in 1..Len(BANK_IDENTIFIERS) |->
             [issuer |-> BANK_IDENTIFIERS[i].key, keywords |-> BANK_IDENTIFIERS[i].ids]]
    ELSE [i \in 1..Len(ISSUER_PATTERNS) |->
             [issuer |-> ISSUER_PATTERNS[i].issuer,
              keywords |-> ISSUER_PATTERNS[i].issuer_keywords]]

NoIssuer == IF fn = "BankDetector.detect" THEN None ELSE Unknown

\* keyword k occurs in text, letter case ignored
OccursIgnoringCase(k, text) ==
    \E i \in 0..(Len(text) - Len(k)) :
        \A j \in 1..Len(k) :
            LowerChar(SubSeq(text, i + j, i + j)) = LowerChar(SubSeq(k, j, j))

\* the keywords of the i-th issuer of the table that occur in the text
OccurringKeywords(i) ==
    {j \in 1..Len(PriorityTable[i].keywords) :
        OccursIgnoringCase(PriorityTable[i].keywords[j], args.text)}

Matching == {i \in 1..Len(PriorityTable) : OccurringKeywords(i) # {}}

International ==
    {i \in 1..Len(PriorityTable) : ~InSeq(PriorityTable[i].issuer, indian_banks)}

\* C17: the detector returns the first issuer of its identifier table, in
\* the table's priority order, one of whose keywords occurs in the text as
\* a case-insensitive substring, and no issuer when no keyword occurs; for
\* detect_issuer a text with a domestic and an international keyword
\* resolves to the domestic issuer.
C17_FirstIssuerInPriorityOrder ==
    DetectorReturned =>
        /\ Matching = {} => ret.value = NoIssuer
        /\ Matching # {} =>
               \E i \in Matching :
                   /\ ret.value = PriorityTable[i].issuer
                   /\ \A k \in Matching : i <= k
        /\ (/\ fn = "detect_issuer"
            /\ Matching \cap International # {}
            /\ Matching \ International # {}) => InSeq(ret.value, indian_banks)

C17_Witness ==
    /\ fn = "detect_issuer"
    /\ ret.returned
    /\ args.text = "amex hdfc"
    /\ ret.value = "HDFC"

\* keywords that name no one bank or are a bare short name
GenericKeywords == {"AXIS", "GLOBAL CREDIT CARD", "STATEMENT OF ACCOUNT"}

\* a keyword that names the bank in full: "<name> BANK"
IsSpecific(k) == OccursIgnoringCase(" BANK", k)

SelectedByGenericOnly(i) ==
    /\ ret.value = PriorityTable[i].issuer
    /\ OccurringKeywords(i) # {}
    /\ \A j \in OccurringKeywords(i) : Upper(PriorityTable[i].keywords[j]) \in GenericKeywords

SpecificOccurs(i) ==
    \E j \in OccurringKeywords(i) : IsSpecific(PriorityTable[i].keywords[j])

\* C18: no issuer is selected by generic keywords alone while a more
\* specific keyword of a different issuer occurs in the text.
C18_NoGenericKeywordWins ==
    DetectorReturned =>
        \A i, x \in 1..Len(PriorityTable) :
            (i # x /\ SpecificOccurs(x)) => ~SelectedByGenericOnly(i)

(***************************************************************************)
(* BaseParser.clean_amount applied on its own to an amount string, and     *)
(* again to what it returned                                               *)
(***************************************************************************)
MaxAmountLen == 3

AmountAlphabet == {"1", "5", ".", ",", " ", "R", "s", "C", "r", "₹"}

\* every string over the alphabet up to the bound, the sentinel, amounts as
\* the statements print them, and a JSON number
AmountInputs ==
    UNION {[1..n -> AmountAlphabet] : n \in 0..MaxAmountLen}
        \cup {NOT_FOUND, JsonNumber, Chars("₹1,500.00 Cr"), Chars("Rs. 22935"),
              Chars("22.935,00"), Chars("INR 1.2.3")}

InitAmounts ==
    /\ api_key = ""
    /\ IdleCall
    /\ fn = "clean_amount"
    /\ args \in [input : AmountInputs, amount_str : AmountInputs, again : {FALSE}]
    /\ args.amount_str = args.input
    /\ ret = NotReturned

\* self.clean_amount(amount_str)
CleanAmount ==
    /\ fn = "clean_amount"
    /\ ~ret.returned
    /\ ret' = Returned(IF CleanAmountRaises(args.amount_str)
                       THEN [raised |-> TRUE, error |-> "TypeError"]
                       ELSE [raised |-> FALSE, value |-> clean_amount(args.amount_str)])
    /\ UNCHANGED <<parseVars, fn, args>>

\* the returned amount is given to clean_amount once more
CleanAgain ==
    /\ fn = "clean_amount"
    /\ ret.returned
    /\ ~ret.value.raised
    /\ ~args.again
    /\ args' = [args EXCEPT !.amount_str = ret.value.value, !.again = TRUE]
    /\ ret' = NotReturned
    /\ UNCHANGED <<parseVars, fn>>

NextAmounts == CleanAmount \/ CleanAgain

SpecAmounts == InitAmounts /\ [][NextAmounts]_vars

CleanAmountReturned == fn = "clean_amount" /\ ret.returned

\* only digits and at most one decimal point
Canonical(s) ==
    /\ \A i \in 1..Len(s) : s[i] \in Digits \cup {"."}
    /\ CountOf(s, ".") <= 1

\* C19: clean_amount never raises on a string; for the sentinel it returns
\* the sentinel, and for every other string a non-empty canonical numeric
\* string, or the sentinel when nothing remains after stripping.
C19_CanonicalOrSentinel ==
    (CleanAmountReturned /\ IsStr(args.amount_str)) =>
        /\ ~ret.value.raised
        /\ args.amount_str = NOT_FOUND => ret.value.value = NOT_FOUND
        /\ args.amount_str # NOT_FOUND =>
               \/ ret.value.value = NOT_FOUND
               \/ Canonical(ret.value.value) /\ ret.value.value # EmptyStr

UniversalCategories ==
    << [name |-> "Dining",
        keywords |-> {"restaurant", "cafe", "food", "starbucks", "mc donald", "mcdonald",
                      "kfc", "domino", "chipotle", "panera", "subway", "wendys",
                      "taco bell", "swiggy", "zomato", "uber eats", "dunzo", "box8",
                      "faasos", "pizza", "burger", "dining", "innovative food", "kitchen",
                      "bistro", "eatery", "coffee", "bar"}],
       [name |-> "Groceries",
        keywords |-> {"grocery", "supermarket", "market", "walmart", "target", "costco",
                      "whole foods", "trader joe", "kroger", "safeway", "zepto", "blinkit",
                      "blink commerce", "bigbasket", "grofers", "instamart", "dmart",
                      "reliance", "more", "big bazaar", "jiomart", "fresh", "vegetables"}],
       [name |-> "Transportation",
        keywords |-> {"uber", "lyft", "gas", "fuel", "shell", "exxon", "chevron", "bp",
                      "ola", "rapido", "meru", "petrol", "hp petrol", "bharat petroleum",
                      "indian oil", "nayara", "auto service", "taxi", "ato borivali",
                      "satyashanti auto", "parking", "airline", "delta", "metro"}],
       [name |-> "Shopping",
        keywords |-> {"amazon", "best buy", "apple store", "target", "macys", "nordstrom",
                      "flipkart", "myntra", "ajio", "meesho", "shoppers stop", "lifestyle",
                      "store", "shop", "mall", "retail", "snapdeal"}],
       [name |-> "Entertainment",
        keywords |-> {"netflix", "spotify", "prime", "hulu", "disney", "hotstar",
                      "youtube", "apple music", "movie", "cinema", "pvr", "inox",
                      "gaming", "playstation", "xbox", "theater", "zee5", "sony liv"}],
       [name |-> "Utilities",
        keywords |-> {"electric", "electricity", "water", "internet", "phone", "mobile",
                      "verizon", "at&t", "tmobile", "airtel", "jio", "vodafone", "bsnl",
                      "bill payment", "recharge", "broadband", "wifi"}],
       [name |-> "Travel",
        keywords |-> {"airline", "flight", "hotel", "booking", "delta", "united", "hilton",
                      "makemytrip", "goibibo", "yatra", "cleartrip", "oyo", "airbnb",
                      "irctc", "railway", "marriott", "rental", "resort", "lodge"}],
       [name |-> "Bills",
        keywords |-> {"paytm", "phonepe", "googlepay", "gpay", "bhim", "payment gateway",
                      "wallet", "digital payment", "cc payment", "payzapp"}],
       [name |-> "Fees",
        keywords |-> {"late fee", "finance charge", "annual fee", "service charge",
                      "gst", "igst", "cgst", "sgst", "surcharge", "penalty", "interest",
                      "processing fee", "waiver", "finance charges", "atm"}] >>

UniversalCategoryHit(c, description) ==
    \E keyword \in UniversalCategories[c].keywords : Contains(description, keyword)

Universal_categorize_transaction(text) ==
    LET description == Lower(text)
    IN  IF \E c \in 1..Len(UniversalCategories) : UniversalCategoryHit(c, description)
        THEN LET c == CHOOSE k \in 1..Len(UniversalCategories) :
                          /\ UniversalCategoryHit(k, description)
                          /\ \A i \in 1..(k - 1) : ~UniversalCategoryHit(i, description)
             IN  UniversalCategories[c].name
        ELSE "Other"

\* merchants and words of statement descriptions
DescriptionPieces == { "SWIGGY", "Zepto Grocery", "UBER", "Amazon Store", "Netflix",
                       "Airtel Recharge", "IRCTC", "Paytm", "Late Fee", "TRANSFER" }

Descriptions == { a \o " " \o b : a, b \in DescriptionPieces }

InitCategorize ==
    /\ api_key = ""
    /\ IdleCall
    /\ fn \in {"BaseParser.categorize_transaction",
               "UniversalCreditCardParser.categorize_transaction"}
    /\ args \in [description : Descriptions]
    /\ ret = NotReturned

BaseCategorize ==
    /\ fn = "BaseParser.categorize_transaction"
    /\ ~ret.returned
    /\ ret' = Returned(categorize_transaction(args.description))
    /\ UNCHANGED <<parseVars, fn, args>>

UniversalCategorize ==
    /\ fn = "UniversalCreditCardParser.categorize_transaction"
    /\ ~ret.returned
    /\ ret' = Returned(Universal_categorize_transaction(args.description))
    /\ UNCHANGED <<parseVars, fn, args>>

NextCategorize == BaseCategorize \/ UniversalCategorize

SpecCategorize == InitCategorize /\ [][NextCategorize]_vars

CategorizerReturned ==
    /\ fn \in {"BaseParser.categorize_transaction",
               "UniversalCreditCardParser.categorize_transaction"}
    /\ ret.returned

\* the closed set of labels, in the declared order
DeclaredLabels == <<"Dining", "Groceries", "Transportation", "Shopping", "Entertainment",
                    "Utilities", "Travel", "Bills", "Fees", "Other">>

\* the keywords the called categorizer has for a label
KeywordsOf(label) ==
    LET table == IF fn = "BaseParser.categorize_transaction"
                 THEN categories ELSE UniversalCategories
    IN  UNION {table[c].keywords : c \in {k \in 1..Len(table) : table[k].name = label}}

LabelMatches(i) ==
    \E kw \in KeywordsOf(DeclaredLabels[i]) : OccursIgnoringCase(kw, args.description)

\* C21: the categorizer returns one label of the closed set: the first
\* label, in the declared order Dining, Groceries, Transportation,
\* Shopping, Entertainment, Utilities, Travel, Bills, Fees, one of whose
\* keywords is in the lower-cased description, and Other when none is.
C21_FirstCategoryInDeclaredOrder ==
    CategorizerReturned =>
        /\ InSeq(ret.value, DeclaredLabels)
        /\ LET matching == {i \in 1..Len(DeclaredLabels) : LabelMatches(i)}
           IN  IF matching = {} THEN ret.value = "Other"
               ELSE \E i \in matching :
                        /\ ret.value = DeclaredLabels[i]
                        /\ \A k \in matching : i <= k

(***************************************************************************)
(* Dates of the field patterns: UniversalCreditCardParser.extract_field    *)
(* with parse_indian_date, and the dates HDFCParser.parse stores           *)
(***************************************************************************)
\* date_str.split('/')
RECURSIVE SplitSlash(_)
SplitSlash(s) ==
    IF ~Contains(s, "/") THEN <<s>>
    ELSE LET k == CHOOSE i \in 1..Len(s) :
                      SubSeq(s, i, i) = "/" /\ \A j \in 1..(i - 1) : SubSeq(s, j, j) # "/"
         IN  <<SubSeq(s, 1, k - 1)>> \o SplitSlash(SubSeq(s, k + 1, Len(s)))

DigitValue(c) == CHOOSE n \in 0..9 : SubSeq("0123456789", n + 1, n + 1) = c

\* int(part) of one or two decimal digits; on anything else of that length
\* int() raises ValueError or gives a number below 13
IsAboveTwelve(part) ==
    /\ Len(part) = 2
    /\ AllIn(part, Digits)
    /\ DigitValue(SubSeq(part, 1, 1)) * 10 + DigitValue(SubSeq(part, 2, 2)) > 12

\* None for an empty string; day and month change places only when the
\* first part is above 12; the bare except returns date_str
parse_indian_date(date_str) ==
    IF date_str = "" THEN None
    ELSE LET parts == SplitSlash(date_str)
         IN  IF Len(parts) = 3 /\ Len(parts[1]) <= 2 /\ IsAboveTwelve(parts[1])
             THEN parts[2] \o "/" \o parts[1] \o "/" \o parts[3]
             ELSE date_str

\* re.match(r'\d{2}/\d{2}/\d{4}', value): a match at the start of value
StartsWithDate(value) == Len(value) >= 10 /\ MatchesDate(SubSeq(value, 1, 10))

\* value.strip() on a string
StripStr(value) == Str(Strip(Chars(value)))

\* the loop over patterns: the first pattern that matches returns, with an
\* Indian issuer's date converted; a match whose group is unset raises
RECURSIVE extract_field(_, _)
extract_field(patterns, issuer) ==
    IF patterns = <<>> THEN Value("Not found")
    ELSE LET p == Head(patterns)
         IN  IF p.kind = "no match" THEN extract_field(Tail(patterns), issuer)
             ELSE IF p.kind = "group unset" THEN Raises("AttributeError")
             ELSE LET value == StripStr(p.group)
                  IN  IF InSeq(issuer, indian_banks) /\ StartsWithDate(value)
                      THEN Value(parse_indian_date(value))
                      ELSE Value(value)

\* dates as an Indian statement prints them, day first
PrintedDates == {"05/07/2025", "15/07/2025", "12/12/2025", "13/01/2025", " 25/08/2025 ",
                 "31/12/2024"}

\* what a date pattern list finds: nothing first, then the printed date
DatePatterns(printed) == << [kind |-> "no match"], [kind |-> "match", group |-> printed] >>

InitDates ==
    /\ api_key = ""
    /\ IdleCall
    /\ fn \in {"extract_field", "HDFCParser.parse"}
    /\ args \in [issuer : {"HDFC", "Axis", "Chase"},
                 statement_date : PrintedDates, payment_due_date : PrintedDates]
    /\ fn = "HDFCParser.parse" => args.issuer = "HDFC"
    /\ ret = NotReturned

\* the two date fields through extract_field
ExtractDateFields ==
    /\ fn = "extract_field"
    /\ ~ret.returned
    /\ ret' = Returned(
           [statement_date |-> extract_field(DatePatterns(args.statement_date), args.issuer).value,
            payment_due_date |->
                extract_field(DatePatterns(args.payment_due_date), args.issuer).value])
    /\ UNCHANGED <<parseVars, fn, args>>

\* the two date fields as HDFCParser.parse stores them
HDFCParseDates ==
    /\ fn = "HDFCParser.parse"
    /\ ~ret.returned
    /\ ret' = Returned(
           [statement_date |-> extract_with_pattern(DatePatterns(args.statement_date)).value,
            payment_due_date |->
                extract_with_pattern(DatePatterns(args.payment_due_date)).value])
    /\ UNCHANGED <<parseVars, fn, args>>

NextDates == ExtractDateFields \/ HDFCParseDates

SpecDates == InitDates /\ [][NextDates]_vars

DatesReturned == fn \in {"extract_field", "HDFCParser.parse"} /\ ret.returned

\* the printed day/month/year date in month/day/year form
MonthDayYear(printed) ==
    LET parts == SplitSlash(StripStr(printed))
    IN  parts[2] \o "/" \o parts[1] \o "/" \o parts[3]

\* C22: every date captured by an Indian issuer's field patterns is stored
\* in month/day/year form, whatever its day, so the dates of one record
\* are in one representation.
C22_DatesInOneCanonicalForm ==
    (DatesReturned /\ InSeq(args.issuer, indian_banks)) =>
        /\ ret.value.statement_date = MonthDayYear(args.statement_date)
        /\ ret.value.payment_due_date = MonthDayYear(args.payment_due_date)

(***************************************************************************)
(* UnifiedCreditCardParser.parse_batch: parse called for each file in      *)
(* turn, its result appended                                               *)
(***************************************************************************)
MaxBatch == 3

\* what the pattern engine captures in a statement that prints every field,
\* and in one that prints only its dates
FullCapture ==
    [card_last_4 |-> Card1, statement_date |-> Date1, payment_due_date |-> Date1,
     total_amount_due |-> Amount1, minimum_payment |-> Amount1,
     statement_period_start |-> Date1, statement_period_end |-> Date2,
     credit_limit |-> Amount1, available_credit |-> NOT_FOUND]

DatesCapture ==
    [FullCapture EXCEPT !.card_last_4 = NOT_FOUND, !.total_amount_due = NOT_FOUND,
                        !.minimum_payment = NOT_FOUND]

\* a file: whether the extractor reads it and the text it yields, what the
\* patterns capture in that text, whether its engine breaks on it, and what
\* the backend answers when asked about it
File(name, fault, text, cap, engine_fault, resp) ==
    [name |-> name, fault |-> fault, text |-> text, scan |-> [cap |-> cap, txns |-> <<Txn1>>],
     engine_fault |-> engine_fault, resp |-> resp]

BackendTimeout == [outcome |-> "raise", data |-> NoData, error |-> "Timeout"]
BackendCard ==
    [outcome |-> "success", error |-> <<"">>,
     data |-> [card_last_4 |-> Card2, statement_date |-> Date2, payment_due_date |-> Date2,
               total_amount_due |-> AmountRs, minimum_payment |-> AmountRs]]

Files ==
    { File("damaged.pdf", "pdf damaged", NoText, FullCapture, "", BackendTimeout),
      File("scan.pdf", "", [len |-> 40, ws |-> 0, words |-> "hdfc bank"], FullCapture, "",
           BackendTimeout),
      File("hdfc.pdf", "", [len |-> 100, ws |-> 0, words |-> "hdfc bank"], FullCapture, "",
           BackendTimeout),
      File("icici.pdf", "", [len |-> 100, ws |-> 0, words |-> "ICICI"], DatesCapture, "",
           BackendCard),
      File("axis.pdf", "", [len |-> 100, ws |-> 0, words |-> "Axis Bank"], FullCapture,
           "MemoryError", BackendTimeout),
      File("other.pdf", "", [len |-> 100, ws |-> 0, words |-> "statement"], FullCapture, "",
           BackendCard) }

InitBatch ==
    /\ api_key \in {"", "key"}
    /\ IdleCall
    /\ fn = "parse_batch"
    /\ args \in [pdf_files : SeqsUpTo(Files, MaxBatch)]
    /\ ret = [returned |-> FALSE, results |-> <<>>]

InBatch == fn = "parse_batch" /\ ~ret.returned

\* parse is at work on a file, called by parse_batch or on its own
Running == fn \in {"parse_batch", "parse"} /\ ~ret.returned

\* the file the loop is at
pdf_file == args.pdf_files[Len(ret.results) + 1]

\* results.insert(0, result) in place of append
Appended_Front(results, r) == <<r>> \o results

\* results.append(result)
Appended(results, r) == Append(results, r)

\* the call made with a flag that depends on what was parsed before
BatchCall_ForcedAfterFirst ==
    /\ InBatch
    /\ Len(ret.results) < Len(args.pdf_files)
    /\ Parse(Len(ret.results) > 0)

\* result = self.parse(pdf_file): the call
BatchCall ==
    /\ InBatch
    /\ Len(ret.results) < Len(args.pdf_files)
    /\ Parse(FALSE)

RunExtract ==
    /\ Running
    /\ pc = "extract"
    /\ IF pdf_file.fault # "" THEN ExtractRaises(pdf_file.fault)
       ELSE ExtractReturns(pdf_file.text)

RunDetect == Running /\ Detect

RunRegex ==
    /\ Running
    /\ pc = "regex"
    /\ IF pdf_file.engine_fault # "" THEN RegexRaises(pdf_file.engine_fault)
       ELSE RegexReturns(pdf_file.scan)

RunAIParse == Running /\ AIParse

RunAIAnswers == Running /\ pc = "ai_call" /\ AIAnswers(pdf_file.resp, <<Txn1>>)

RunEnhance == Running /\ Enhance

RunEnhanceAnswers == Running /\ pc = "enh_call" /\ EnhanceAnswers(pdf_file.resp)

RunFinal == Running /\ Final

\* parse has returned: results.append(result), and the loop goes on
BatchAppend ==
    /\ InBatch
    /\ pc = "done"
    /\ ret' = [ret EXCEPT !.results = Appended(ret.results, result)]
    /\ pc' = "idle"
    /\ force_ai' = FALSE
    /\ full_text' = NoText
    /\ detected_bank' = None
    /\ statement' = NoStatement
    /\ text_sent' = -1
    /\ result' = Pending
    /\ calls' = <<>>
    /\ draft' = NoStatement
    /\ ai_resp' = NoResponse
    /\ raised' = <<>>
    /\ UNCHANGED <<api_key, fn, args>>

\* return results
BatchReturn ==
    /\ InBatch
    /\ pc = "idle"
    /\ Len(ret.results) = Len(args.pdf_files)
    /\ ret' = [ret EXCEPT !.returned = TRUE]
    /\ UNCHANGED <<parseVars, fn, args>>

NextBatch ==
    \/ BatchCall
    \/ RunExtract
    \/ RunDetect
    \/ RunRegex
    \/ RunAIParse
    \/ RunAIAnswers
    \/ RunEnhance
    \/ RunEnhanceAnswers
    \/ RunFinal
    \/ BatchAppend
    \/ BatchReturn

SpecBatch == InitBatch /\ [][NextBatch]_vars

\* what the detector gives for the text of each file
IssuerOf == [file \in Files |-> detect(file.text.words)]

\* parsing the file fails: it cannot be read, its text is insufficient, or
\* its engine breaks on it
Fails(file) ==
    \/ file.fault # ""
    \/ Insufficient(file.text)
    \/ file.engine_fault # "" /\ IssuerOf[file] \in REGEX_SUPPORTED_BANKS

\* the result is the one of this file
IsResultOf(r, file) ==
    IF file.fault # "" THEN r.reason = Msg("PDF text extraction failed: ", file.fault)
    ELSE IF Insufficient(file.text) THEN r = InsufficientResult
    ELSE IF Fails(file) THEN r.reason = <<file.engine_fault>>
    ELSE /\ r.status \in {"SUCCESS", "PARTIAL"}
         /\ IssuerOf[file] \in REGEX_SUPPORTED_BANKS =>
                r.bank_name = regex_parsers[IssuerOf[file]].bank_name

BackendAsked == text_sent # -1

\* C24: in full extraction and in enhancement the text handed to the
\* backend is the prefix of the statement text of at most 15000 characters.
C24_BackendTextTruncated ==
    BackendAsked =>
        /\ text_sent <= 15000
        /\ text_sent = IF full_text.len <= 15000 THEN full_text.len ELSE 15000
        /\ WasCalled("ai_parse") \/ WasCalled("enhance")

C24_Witness ==
    /\ pc = "ai_call"
    /\ full_text.len = 15001
    /\ text_sent = 15000

\* re.match(r'^\d{4}$', card_num)
validate_card_number(card_num) ==
    Len(card_num) = 4 /\ \A i \in 1..4 : card_num[i] \in Digits

\* C25: in every record parse returns, the card suffix is NOT_FOUND or a
\* string of exactly 4 digits, whatever the backend answered.
C25_CardSuffixFourDigits ==
    (pc = "done" /\ WasCalled("final")) =>
        \/ result.card_last_4 = NOT_FOUND
        \/ validate_card_number(result.card_last_4)

(***************************************************************************)
(* One call of UnifiedCreditCardParser.parse on a file, from its first     *)
(* stage to its return                                                     *)
(***************************************************************************)
BackendEmpty == [outcome |-> "failed", data |-> NoData, error |-> <<"Empty response from AI">>]

\* files of every text, with and without a readable text, captures,
\* transactions, a breaking engine, and each kind of backend answer
CallFiles ==
    { [name |-> "statement.pdf", fault |-> f, text |-> t, scan |-> [cap |-> c, txns |-> x],
       engine_fault |-> ef, resp |-> r] :
      f \in {"", "pdf damaged"}, t \in Texts, c \in {FullCapture, DatesCapture},
      x \in {<<>>, <<Txn1>>}, ef \in {"", "MemoryError"},
      r \in {BackendTimeout, BackendCard, BackendEmpty} }

InitCall ==
    /\ api_key \in {"", "key"}
    /\ IdleCall
    /\ fn = "parse"
    /\ args \in [pdf_files : {<<f>> : f \in CallFiles}, force_ai : BOOLEAN]
    /\ ret = [returned |-> FALSE, results |-> <<>>]

\* parse(pdf_file, force_ai) is entered
CallParse ==
    /\ fn = "parse"
    /\ ~ret.returned
    /\ Parse(args.force_ai)

\* return result, in either return statement of parse
CallReturn ==
    /\ fn = "parse"
    /\ ~ret.returned
    /\ pc = "done"
    /\ ret' = [returned |-> TRUE, results |-> <<result>>]
    /\ UNCHANGED <<parseVars, fn, args>>

NextCall ==
    \/ CallParse
    \/ RunExtract
    \/ RunDetect
    \/ RunRegex
    \/ RunAIParse
    \/ RunAIAnswers
    \/ RunEnhance
    \/ RunEnhanceAnswers
    \/ RunFinal
    \/ CallReturn

\* the stages do not stop: parse is sequential code, and the call of the
\* backend returns or raises (requests.post has a timeout)
FairCall == InitCall /\ [][NextCall]_vars /\ WF_vars(NextCall)

\* the stages called so far in this parse call
StagesCalled == [i \in 1..Len(calls) |-> calls[i][1]]

\* the orders in which a complete call goes through its stages
StageOrders ==
    { <<"extract", "detect", "regex_parse", "final">>,
      <<"extract", "detect", "regex_parse", "enhance", "final">>,
      <<"extract", "detect", "regex_parse", "enhance", "backend", "final">>,
      <<"extract", "detect", "ai_parse", "final">>,
      <<"extract", "detect", "ai_parse", "backend", "final">> }

IsPrefix(p, q) == Len(p) <= Len(q) /\ SubSeq(q, 1, Len(p)) = p

StagesInOrder ==
    /\ \E order \in StageOrders : IsPrefix(StagesCalled, order)
    /\ WasCalled("enhance") =>
           /\ WasCalled("regex_parse")
           /\ draft.confidence_score = ConfidenceOf(draft)

Statuses == {"SUCCESS", "PARTIAL", "FAILED"}

OneResult ==
    /\ pc = "done" => result.status \in Statuses
    /\ pc # "done" => result = Pending
    /\ ret.returned => ret.results = <<result>>

\* C26: within one parse call the stages run at most once each and in the
\* order text check, issuer detection, strategy, draft extraction and
\* scoring, optional enhancement, final assembly; enhancement comes after
\* the draft is scored; and every call ends with exactly one result of
\* status SUCCESS, PARTIAL or FAILED.
C26_StagesInOrderAndTermination ==
    /\ [](StagesInOrder /\ OneResult)
    /\ [][result' # result => pc' = "done"]_vars
    /\ <>(ret.returned /\ Len(ret.results) = 1 /\ ret.results[1].status \in Statuses)

C26_Witness ==
    /\ ret.returned
    /\ StagesCalled = <<"extract", "detect", "regex_parse", "enhance", "backend", "final">>
    /\ ret.results[1].status = "SUCCESS"

(***************************************************************************)
(* Required fields of a record are the sentinel or non-empty               *)
(***************************************************************************)
NoEmptyRequired(st) == \A i \in 1..Len(RequiredFields) : st[RequiredFields[i]] # EmptyStr

\* C27: no required field (card suffix, statement date, due date, total due,
\* minimum payment) of a record is ever the empty string: after the pattern
\* engine, after full extraction and after enhancement each of them is
\* NOT_FOUND or non-empty, and so in the record parse returns.
C27_NoEmptyRequiredField ==
    /\ NoEmptyRequired(statement)
    /\ (pc = "done" /\ WasCalled("final")) => NoEmptyRequired(result)

(***************************************************************************)
(* What enhance_regex_results leaves alone                                 *)
(***************************************************************************)
FrameFields == {"transactions", "bank_name", "statement_date", "statement_period_start",
                "statement_period_end", "credit_limit", "available_credit",
                "raw_text_preview"}

\* C28: enhance_regex_results changes nothing of the record except card
\* suffix, total due, due date, minimum payment, extraction method,
\* confidence score and error list: transactions, issuer name, statement
\* date, billing period, credit limit, available credit and text preview are
\* those of the draft, also in the record parse returns, and a draft with no
\* transactions is returned with no transactions.
C28_EnhancementFrame ==
    WasCalled("enhance") =>
        /\ \A f \in FrameFields : statement[f] = draft[f]
        /\ (pc = "done" /\ WasCalled("final")) =>
               /\ \A f \in FrameFields : result[f] = draft[f]
               /\ draft.transactions = <<>> => result.transaction_count = 0

\* an Axis draft without transactions and without statement date was enhanced
\* by an answer that carries a statement date and a card suffix
C28_Witness ==
    /\ pc = "done"
    /\ WasCalled("enhance") /\ WasCalled("backend") /\ WasCalled("final")
    /\ detected_bank = "axis"
    /\ draft.transactions = <<>>
    /\ draft.statement_date = NOT_FOUND
    /\ ai_resp.outcome = "success"
    /\ "statement_date" \in DOMAIN ai_resp.data /\ ai_resp.data.statement_date = Date2
    /\ draft.card_last_4 = NOT_FOUND /\ result.card_last_4 = Card2

(***************************************************************************)
(* Statement lines whose description is longer than what an engine stores  *)
(***************************************************************************)
\* a reference of len characters that holds no keyword of the categorizer
Reference(len) == "TXN" \o Repeat("0", len - 3)

\* the merchant stands after character 97 of the description, and after
\* character 147
LongLines ==
    { <<"05/07/2025", Reference(96), "SWIGGY", "15.00", "Dr">>,
      <<"06/07/2025", Reference(146), "SWIGGY", "15.00">> }

InitLongLines ==
    /\ api_key = ""
    /\ IdleCall
    /\ fn = "extract_transactions"
    /\ args \in [parser : Parsers, text : SeqsUpTo(Lines \cup LongLines, MaxLines)]
    /\ ret = NotReturned

SpecLongLines == InitLongLines /\ [][NextTransactions]_vars

\* C29: every transaction an engine emits carries the category the
\* categorizer gives for its description as stored, that is after the
\* collapsing of whitespace and the cut to the engine's length.
C29_CategoryOfStoredDescription ==
    ExtractReturned =>
        \A i \in 1..Len(ret.value) :
            ret.value[i].category = categorize_transaction(ret.value[i].description)

\* the same for the engines other than Axis, which cut before they categorize
StoredCategoryOutsideAxis ==
    (ExtractReturned /\ args.parser # "axis") =>
        \A i \in 1..Len(ret.value) :
            ret.value[i].category = categorize_transaction(ret.value[i].description)

\* an engine has cut a description to len characters
CutBy(parser, len) ==
    /\ ExtractReturned /\ args.parser = parser
    /\ \E i \in 1..Len(ret.value) : Len(ret.value[i].description) = len

CutByHDFC == CutBy("hdfc", HDFCMaxDescription)
CutByBase == CutBy("icici", BaseMaxDescription)
CutByAxis == CutBy("axis", AxisMaxDescription)

(***************************************************************************)
(* Calls of parse on one orchestrator, one after the other                 *)
(***************************************************************************)
\* a file has the same result wherever it stands in the batch
SameFileSameResult ==
    \A i, j \in 1..Len(ret.results) :
        args.pdf_files[i] = args.pdf_files[j] => ret.results[i] = ret.results[j]

\* a call begins in the state the first call began in
FreshCall == (Running /\ pc = "idle") => IdleCall

====
